---- MODULE Spec2Model ----
(***************************************************************************)
(* Control plane of realhf: the request-reply stream between the master    *)
(* worker and the model workers (realhf/system/request_reply_stream.py)    *)
(* and the function executor that drives one traversal of the dataflow     *)
(* graph (realhf/system/function_executor.py), and the launcher that      *)
(* starts and restarts them (realhf/apps/main.py).                         *)
(*                                                                         *)
(* The specifications share the variables of this module:                  *)
(*   Spec            the request client (post / request / poll / gather)   *)
(*                   against model workers that answer over the reply      *)
(*                   stream;                                               *)
(*   SpecRendezvous  construction of the two endpoints through the name    *)
(*                   resolving service;                                    *)
(*   SpecExec        FunctionExecutor.execute_step: the flush task, the    *)
(*                   data loading task, the finishing task and the         *)
(*                   per-node function calls;                              *)
(*   SpecLoaderFair  load_data with the waiters of gather_async, under     *)
(*                   the fairness of the event loop;                       *)
(*   SpecScenario    load_data in the end-to-end loading scenario;         *)
(*   SpecBuffer      load_data against a consumer that drains the buffer;  *)
(*   SpecRouted      load_data under every routing of the source handlers; *)
(*   SpecTracker     the storage tracker under concurrent calls;           *)
(*   SpecPlanner     the redistribution planner over the tracker;          *)
(*   SpecHandshakeFair  request(no_syn=False) with the workers, under      *)
(*                   fair scheduling;                                      *)
(*   SpecPayloads    request() with payloads built by the caller;          *)
(*   SpecRendezvousFair  the construction of the endpoints, each           *)
(*                   constructor going on when it can;                     *)
(*   SpecStepFair    execute_step under the fairness of the event loop;    *)
(*   SpecLauncher    main_start of realhf/apps/main.py: reset of the name  *)
(*                   resolving repo, submission, wait and recovery.        *)
(* Each specification leaves the other parts' variables unchanged.         *)
(***************************************************************************)
EXTENDS Integers, Sequences, FiniteSets, TLC

\* ------------------------------------------------------------------ bounds
NWorkers == 2        \* n_subscribers: model workers, indexed 1..NWorkers
MaxPayloads == 2     \* request payloads the client builds in one behaviour
MaxBarrierPolls == 3 \* barrier polls of the master that are told apart
PollStep == 100      \* time that passes between two looks of name_resolve.wait
MaxNodes == 3        \* nodes of the dataflow graph
MaxSeqs == 2         \* largest n_seqs of a node
MaxIds == 2          \* distinct sample ids the source ranks draw from
MaxBatch == 1        \* samples in one fetch response
MaxRounds == 2       \* fetch rounds of one load_data run
MaxRetries == 2      \* largest --recover_retries of a launch

\* buffer.max_size: room for the samples of two steps
BufferMaxSize == 2 * MaxSeqs

\* the data keys of a sample (SequenceSample.keys)
DataKeys == <<"packed_prompts", "task_ids">>

\* name_resolve.wait(..., timeout=300) in NameResolvingReplyServer.__init__
WaitTimeout == 300

Workers == 1..NWorkers
\* The handlers of the routing table: one more than there are workers, so that
\* two of them share a worker.
Handlers == 1..(NWorkers + 1)

\* -------------------------------------------------------------- variables
VARIABLES
    \* --- NameResolvingRequestClient
    handler_routing,   \* self._handler_routing: handler -> index of send socket
    send_sockets,      \* self.send_sockets: per worker, the payloads sent on it
    recv_socket,       \* self.recv_socket: replies in flight to the master
    response_buffer,   \* self._response_buffer: insertion-ordered dict by request_id
    next_id,           \* source of fresh uuid4 values
    \* --- the caller of the client: position inside request() / poll()
    pc,                \* "idle" | "req_post" | "req_syn" | "req_ack" | "poll_block"
    req,               \* the `requests` list of the running request() call
    req_args,          \* its handlers and datas arguments
    req_no_syn,        \* its no_syn argument
    idx,               \* position in the running list comprehension
    pattern,           \* pattern of the last poll
    ret,               \* what the last call returned or raised
    n_built,           \* request payloads built so far
    \* --- model workers (peer of the client)
    worker_pos,        \* per worker: how many payloads of its socket it has taken
    \* --- history
    received,          \* every payload pulled from recv_socket
    delivered,         \* every payload a poll handed to its caller, and whether it
                       \* came out of the buffer (pulled by an earlier poll)
    syn_observed,      \* request ids of the payloads the handshake polls returned
    \* --- name resolving service and the construction of the two endpoints
    name_entries,      \* names added with name_resolve.add
    barrier_subtree,   \* sub-entries under PUBSUB_BARRIER_NAME, one per add_subentry
    client_step,       \* position of NameResolvingRequestClient.__init__
    client_polls,      \* barrier polls the master has made (capped)
    server_step,       \* per worker: position of NameResolvingReplyServer.__init__
    server_elapsed,    \* per worker: time spent in the running name_resolve.wait
    server_accepted,   \* workers whose accept() has connected both sockets
    stale_names,       \* names a stopped or earlier run of the trial has left
    stale_markers,     \* barrier sub-entries such a run has left
    \* --- the launcher (realhf/apps/main.py)
    args,              \* the command line: mode, recover_mode, recover_retries
    job_group_id,      \* main_start's job_group_id, "" before the first start
    recover_count,     \* main_start's recover_count
    main_pc,           \* main_start: "start" | "reset" | "submit" | "wait" |
                       \* "stop_all" | "recover" | "returned" | "raised"
    sched_jobs,        \* the jobs submitted to the scheduler and not stopped
    main_exc,          \* the exception sched.wait or the setup has raised
    recover_this,      \* the local recover_this
    restarts,          \* history: the recursive calls of main_start
    \* --- FunctionExecutor and the RPCCorountineControl it shares with the nodes
    G,                 \* rpcs[0]._G: node -> set of its predecessors
    n_seqs,            \* rpc.n_seqs per node
    shuffle_dataset,   \* self.shuffle_dataset
    node_workers,      \* msid2mwid: per node, the workers its model's shards are on
    redistrib_plan,    \* the plan redistrib_planner has last derived, with its arguments
    node_state,        \* per node task: "waiting" | "requested" | "done"
    topo_level_count,  \* ctrl.topo_level_count: queue, each item tagged by its emitter
    train_count,       \* ctrl.train_count: queue, each item tagged by its emitter
    flush_level,       \* flush_calls: index of the generation waited for
    flush_got,         \* flush_calls: the signals got for that generation
    flush_log,         \* history: per flush issued, its level and the signals counted
    finish_got,        \* finish_traverse: the signals got so far
    finish_pc,         \* finish_traverse: "wait" | "lock" | "clear_data" | "done"
    lock,              \* ctrl.lock: "free" or the task that holds it
    ids_to_clear,      \* ctrl.ids_to_clear
    used_hash_vals_this_epoch, \* ctrl.used_hash_vals_this_epoch
    tracker,           \* storage_tracker: ownership records [worker, key, id]
    buffer,            \* self.buffer: slots [id, round] in the order they were put
    buffer_max_size,   \* self.buffer.max_size
    step_pc,           \* execute_step: "running" | "returned" | "raised"
    \* --- load_data
    load_pc,           \* "loop" | "gather" | "process" | "add" | "put" | "sleep" |
                       \* "done" | "error"
    load_rounds,       \* fetch rounds issued
    load_ids,          \* request ids of the running fetch round
    load_resps,        \* resps: per dp rank <<>> while awaited, else <<response>>
    received_ids,      \* the local set received_ids
    all_data,          \* the local list all_data (sample ids)
    gpu_id_data,       \* the local dict gpu_id_data: worker -> list of sample ids
    load_adds,         \* add_data calls of the round still to be made
    received_log,      \* history: the ids checked against received_ids, in order
    rounds_recorded    \* history: rounds for which add_data was called

stream_vars == <<handler_routing, send_sockets, recv_socket, response_buffer,
                 next_id, pc, req, req_args, req_no_syn, idx, pattern, ret, n_built,
                 worker_pos, received, delivered, syn_observed>>

launch_vars == <<args, job_group_id, recover_count, main_pc, sched_jobs, main_exc,
                 recover_this, restarts>>

repo_vars == <<name_entries, barrier_subtree, stale_names, stale_markers>>

endpoint_vars == <<client_step, client_polls, server_step, server_elapsed,
                   server_accepted>>

rdv_vars == <<repo_vars, endpoint_vars, launch_vars>>

\* What the tasks of execute_step do not change.
config_vars ==
    <<G, n_seqs, shuffle_dataset, node_workers, redistrib_plan, buffer_max_size, step_pc>>

exec_vars == <<config_vars, node_state, topo_level_count, train_count, flush_level,
               flush_got, flush_log, finish_got, finish_pc, lock, ids_to_clear,
               used_hash_vals_this_epoch, tracker, buffer>>

load_vars == <<load_pc, load_rounds, load_ids, load_resps, received_ids, all_data,
               gpu_id_data, load_adds, received_log, rounds_recorded>>

\* The variables of the caller of Spec, which the executor does not touch.
caller_vars == <<pc, req, req_args, req_no_syn, idx, pattern, ret, n_built, received,
                 delivered, syn_observed>>

vars == <<stream_vars, rdv_vars, exec_vars, load_vars>>

\* ---------------------------------------------------------------- helpers
Range(s) == {s[i] : i \in DOMAIN s}

SeqsUpTo(S, n) == UNION {[1..k -> S] : k \in 1..n}

\* ---------------------------------------------------------------- Payload
\* Payload.data of a payload that carries none (data=None).
NoData == [kind |-> "None", ids |-> {}, samples |-> <<>>]

\* dataclass Payload: request_id, syn_reply_id and ack_reply_id that are not
\* given are drawn fresh by __post_init__.  `first` is the next unused id.
Payload(handler, handle_name, data, no_syn, first) ==
    [handler |-> handler, handle_name |-> handle_name,
     request_id |-> first, syn_reply_id |-> first + 1, ack_reply_id |-> first + 2,
     no_syn |-> no_syn, data |-> data]

\* Payload(handler=..., handle_name="ack", request_id=r.ack_reply_id): the
\* request id is given, the other two ids are drawn fresh; no_syn defaults True.
AckPayload(r, first) ==
    [handler |-> r.handler, handle_name |-> "ack",
     request_id |-> r.ack_reply_id, syn_reply_id |-> first, ack_reply_id |-> first + 1,
     no_syn |-> TRUE, data |-> NoData]

\* A reply of a model worker: it echoes the id it answers.
Reply(id, w, data) ==
    [handler |-> w, handle_name |-> "reply",
     request_id |-> id, syn_reply_id |-> 0, ack_reply_id |-> 0,
     no_syn |-> TRUE, data |-> data]

\* --------------------------------------------------------------- patterns
\* create_exact_match_pattern: "(a|b|...)$" over the escaped strings, used with
\* re.match, which anchors at the start: a request id matches iff it is one of
\* the listed strings.  ids |-> <<>> matches no id.
create_exact_match_pattern(string_list) == [any |-> FALSE, ids |-> string_list]

\* pattern None: re.compile(".*")
AnyPattern == [any |-> TRUE, ids |-> <<>>]

PatternMatch(pat, id) == pat.any \/ \E i \in DOMAIN pat.ids : pat.ids[i] = id

\* ------------------------------------------------------- response buffer
\* (mutant) a payload that is not wanted now is not kept
BufferInsertDropped(buf, p) == buf

\* self._response_buffer[p.request_id] = p on an insertion-ordered dict: a new
\* key goes last, an existing key keeps its place and takes the new value.
BufferInsert(buf, p) ==
    IF \E i \in DOMAIN buf : buf[i].request_id = p.request_id
    THEN [i \in DOMAIN buf |-> IF buf[i].request_id = p.request_id THEN p ELSE buf[i]]
    ELSE Append(buf, p)

\* (mutant) every payload passes the filter
MatchTestAny(pat, p) == TRUE

\* pattern.match(str(req_id)) in _poll_batch_nonblock
MatchTest(pat, p) == PatternMatch(pat, p.request_id)

Matching(buf, pat) == SelectSeq(buf, LAMBDA p : MatchTest(pat, p))

\* (mutant) taking the matches out empties the buffer
UnmatchedCleared(buf, pat) == <<>>

Unmatched(buf, pat) == SelectSeq(buf, LAMBDA p : ~MatchTest(pat, p))

\* (mutant) a message is taken from the socket before the buffer is scanned
PollBatchNonblockSocketFirst(buf, sock, pat) ==
    LET buf2 == IF Len(sock) = 0 THEN buf ELSE BufferInsert(buf, Head(sock))
        sock2 == IF Len(sock) = 0 THEN sock ELSE Tail(sock)
        got == IF Len(sock) = 0 THEN <<>> ELSE <<Head(sock)>>
    IN [buffer |-> Unmatched(buf2, pat), socket |-> sock2,
        payloads |-> Matching(buf2, pat), pulled |-> got,
        no_message |-> Len(Matching(buf2, pat)) = 0]

\* _poll_batch_nonblock: the buffer first, then at most one message of the socket.
PollBatchNonblock(buf, sock, pat) ==
    IF Len(Matching(buf, pat)) > 0
    THEN [buffer |-> Unmatched(buf, pat), socket |-> sock,
          payloads |-> Matching(buf, pat), pulled |-> <<>>, no_message |-> FALSE]
    ELSE IF Len(sock) = 0
    THEN [buffer |-> buf, socket |-> sock,
          payloads |-> <<>>, pulled |-> <<>>, no_message |-> TRUE]
    ELSE LET buf2 == BufferInsert(buf, Head(sock)) IN
         IF Len(Matching(buf2, pat)) > 0
         THEN [buffer |-> Unmatched(buf2, pat), socket |-> Tail(sock),
               payloads |-> Matching(buf2, pat), pulled |-> <<Head(sock)>>,
               no_message |-> FALSE]
         ELSE [buffer |-> buf2, socket |-> Tail(sock),
               payloads |-> <<>>, pulled |-> <<Head(sock)>>, no_message |-> TRUE]

RECURSIVE InsertAll(_, _)
InsertAll(buf, ps) ==
    IF ps = <<>> THEN buf ELSE InsertAll(BufferInsert(buf, Head(ps)), Tail(ps))

\* (mutant) the payloads after the first are dropped
RebufferDropped(buf, rest) == buf

\* poll: for p in payloads[1:]: self._response_buffer[p.request_id] = p
Rebuffer(buf, rest) == InsertAll(buf, rest)

\* poll (one attempt of it): the first matching payload goes to the caller, the
\* others go back to the buffer.
PollOnce(buf, sock, pat) ==
    LET r == PollBatchNonblock(buf, sock, pat) IN
    IF r.no_message
    THEN [buffer |-> r.buffer, socket |-> r.socket, pulled |-> r.pulled,
          no_message |-> TRUE, payload |-> <<>>]
    ELSE [buffer |-> Rebuffer(r.buffer, Tail(r.payloads)), socket |-> r.socket,
          pulled |-> r.pulled, no_message |-> FALSE, payload |-> <<Head(r.payloads)>>]

\* History of a successful poll attempt r.
Delivery(r) == {[payload |-> r.payload[1], buffered |-> r.payload[1] \notin Range(r.pulled)]}

\* ------------------------------------------------------------------- post
\* NameResolvingRequestClient.route_to
route_to(routing, handler) == routing[handler]

\* (mutant) the payload goes on every socket
PostOnEvery(socks, routing, p) == [w \in DOMAIN socks |-> Append(socks[w], p)]

\* NameResolvingRequestClient.post: the payload goes on the socket the routing
\* table gives for its handler.
PostOn(socks, routing, p) ==
    [socks EXCEPT ![route_to(routing, p.handler)] = Append(@, p)]

\* Every payload the client has posted, with the socket it went on.
Posted == UNION {{[payload |-> send_sockets[w][i], socket |-> w] :
                     i \in 1..Len(send_sockets[w])} : w \in Workers}

\* ---------------------------------------------------------------- request
\* (mutant) the ids are drawn once for the whole list
BuildRequestsOneDraw(handlers, handle_type, datas, no_syn, first) ==
    [k \in 1..(IF Len(handlers) < Len(datas) THEN Len(handlers) ELSE Len(datas)) |->
        Payload(handlers[k], handle_type, datas[k], no_syn, first)]

\* The `requests` list request() builds: one Payload per pair of
\* zip(handlers, datas), each with three fresh ids.
BuildRequests(handlers, handle_type, datas, no_syn, first) ==
    [k \in 1..(IF Len(handlers) < Len(datas) THEN Len(handlers) ELSE Len(datas)) |->
        Payload(handlers[k], handle_type, datas[k], no_syn, first + 3 * (k - 1))]

\* if datas is None: datas = [None] * len(handlers)
NoDatas(handlers) == [k \in DOMAIN handlers |-> NoData]

\* (mutant) the handshake polls without a pattern
HandshakePatternNone(p) == AnyPattern

\* The pattern the handshake polls with for request p.
HandshakePattern(p) == create_exact_match_pattern(<<p.syn_reply_id>>)

NoReturn == [kind |-> "none", ids |-> <<>>, payload |-> <<>>, data |-> <<>>]
ReturnIds(ids) == [kind |-> "ids", ids |-> ids, payload |-> <<>>, data |-> <<>>]
ReturnPayload(p) == [kind |-> "payload", ids |-> <<>>, payload |-> <<p>>, data |-> <<>>]
RaiseNoMessage == [kind |-> "NoMessage", ids |-> <<>>, payload |-> <<>>, data |-> <<>>]

ReturnId(id) == [kind |-> "id", ids |-> <<id>>, payload |-> <<>>, data |-> <<>>]
RaiseKeyError == [kind |-> "KeyError", ids |-> <<>>, payload |-> <<>>, data |-> <<>>]

\* post(payload): self._handler_routing[payload.handler] raises KeyError for a
\* handler the table does not have, before anything is sent.
post(socks, routing, p) ==
    IF p.handler \in DOMAIN routing
    THEN [sockets |-> PostOn(socks, routing, p), ret |-> ReturnId(p.request_id)]
    ELSE [sockets |-> socks, ret |-> RaiseKeyError]

\* The handlers a caller posts to: those of the table and one it does not have.
PostHandlers == Handlers \cup {NWorkers + 2}

\* A caller builds one Payload (three fresh ids, no_syn=True) and posts it.
Post(handler) ==
    /\ pc = "idle"
    /\ n_built + 1 <= MaxPayloads
    /\ LET r == post(send_sockets, handler_routing,
                     Payload(handler, "rpc", NoData, TRUE, next_id)) IN
       /\ send_sockets' = r.sockets
       /\ ret' = r.ret
    /\ next_id' = next_id + 3
    /\ n_built' = n_built + 1
    /\ UNCHANGED <<handler_routing, recv_socket, response_buffer, pc, req, req_args, req_no_syn,
                   idx, pattern, worker_pos, received, delivered, syn_observed>>

RequestIdsOf(rs) == [k \in DOMAIN rs |-> rs[k].request_id]

\* A datum a caller passes to the k-th handler.
Datum(k) == [kind |-> "arg", ids |-> {}, samples |-> <<k>>]

\* The datas argument of a request: None, one datum per handler, or a list
\* that is one short.
RequestDatas(handlers) ==
    {<<>>} \cup {[k \in 1..n |-> Datum(k)] : n \in {Len(handlers) - 1, Len(handlers)}}

\* request(handlers, handle_type, datas, no_syn=...): the payloads are built.
\* datas = <<>> stands for datas=None (a list of no data is the same call as
\* one with no handlers, which the callers here do not make).
RequestBegin(handlers, datas, no_syn) ==
    /\ pc = "idle"
    /\ n_built + Len(handlers) <= MaxPayloads
    /\ req_args' = [handlers |-> handlers, datas |-> datas]
    /\ req' = BuildRequests(handlers, "rpc",
                            IF datas = <<>> THEN NoDatas(handlers) ELSE datas,
                            no_syn, next_id)
    /\ next_id' = next_id + 3 * Len(handlers)
    /\ req_no_syn' = no_syn
    /\ idx' = 1
    /\ pc' = "req_post"
    /\ ret' = NoReturn
    /\ pattern' = AnyPattern
    /\ n_built' = n_built + Len(handlers)
    /\ syn_observed' = {}
    /\ UNCHANGED <<handler_routing, send_sockets, recv_socket, response_buffer,
                   worker_pos, received, delivered>>

\* Payloads a caller has built itself, one per handler, each with the no_syn
\* it chose (the dataclass default is True).
CallerPayloads(handlers, flags, first) ==
    [k \in DOMAIN handlers |->
        Payload(handlers[k], "rpc", NoData, flags[k], first + 3 * (k - 1))]

\* request(payloads=..., no_syn=...): requests = payloads; the payloads are
\* taken as they are and the no_syn argument is kept for the handshake test.
RequestBeginPayloads(handlers, flags, no_syn) ==
    /\ pc = "idle"
    /\ n_built + Len(handlers) <= MaxPayloads
    /\ req_args' = [handlers |-> <<>>, datas |-> <<>>]
    /\ req' = CallerPayloads(handlers, flags, next_id)
    /\ next_id' = next_id + 3 * Len(handlers)
    /\ req_no_syn' = no_syn
    /\ idx' = 1
    /\ pc' = "req_post"
    /\ ret' = NoReturn
    /\ pattern' = AnyPattern
    /\ n_built' = n_built + Len(handlers)
    /\ syn_observed' = {}
    /\ UNCHANGED <<handler_routing, send_sockets, recv_socket, response_buffer,
                   worker_pos, received, delivered>>

\* (mutant) the handshake is run whatever no_syn says
AwaitsSynAlways(no_syn) == TRUE

\* if not no_syn: the handshake follows the posts
AwaitsSyn(no_syn) == ~no_syn

\* [self.post(r) for r in requests], one post at a time; with no_syn the call
\* returns the request ids after the last post.
RequestPost ==
    /\ pc = "req_post"
    /\ send_sockets' = PostOn(send_sockets, handler_routing, req[idx])
    /\ IF idx < Len(req)
       THEN /\ idx' = idx + 1
            /\ UNCHANGED <<pc, ret>>
       ELSE /\ idx' = 1
            /\ IF AwaitsSyn(req_no_syn)
               THEN pc' = "req_syn" /\ ret' = ret
               ELSE pc' = "idle" /\ ret' = ReturnIds(RequestIdsOf(req))
    /\ UNCHANGED <<handler_routing, recv_socket, response_buffer, next_id, req, req_args,
                   req_no_syn, pattern, n_built, worker_pos, received, delivered,
                   syn_observed>>

\* [self.poll(block=True, pattern=...syn_reply_id) for p in requests]: one
\* attempt of the blocking poll for requests[idx]; NoMessage is retried.
RequestSyn ==
    /\ pc = "req_syn"
    /\ LET r == PollOnce(response_buffer, recv_socket, HandshakePattern(req[idx])) IN
       /\ response_buffer' = r.buffer
       /\ recv_socket' = r.socket
       /\ received' = received \cup Range(r.pulled)
       /\ IF r.no_message
          THEN UNCHANGED <<pc, idx, delivered, syn_observed>>
          ELSE /\ delivered' = delivered \cup Delivery(r)
               /\ syn_observed' = syn_observed \cup {r.payload[1].request_id}
               /\ IF idx < Len(req)
                  THEN idx' = idx + 1 /\ pc' = pc
                  ELSE idx' = 1 /\ pc' = "req_ack"
    /\ UNCHANGED <<handler_routing, send_sockets, next_id, req, req_args, req_no_syn,
                   pattern, ret, n_built, worker_pos>>

\* [self.post(Payload(handler=r.handler, handle_name="ack",
\*                    request_id=r.ack_reply_id)) for r in requests]
RequestAck ==
    /\ pc = "req_ack"
    /\ send_sockets' = PostOn(send_sockets, handler_routing, AckPayload(req[idx], next_id))
    /\ next_id' = next_id + 2
    /\ IF idx < Len(req)
       THEN idx' = idx + 1 /\ UNCHANGED <<pc, ret>>
       ELSE idx' = 1 /\ pc' = "idle" /\ ret' = ReturnIds(RequestIdsOf(req))
    /\ UNCHANGED <<handler_routing, recv_socket, response_buffer, req, req_args, req_no_syn,
                   pattern, n_built, worker_pos, received, delivered, syn_observed>>

\* ------------------------------------------------------------------- poll
\* The ids a caller polls for: request ids that request() has returned.
KnownIds == {x.payload.request_id : x \in {y \in Posted : y.payload.handle_name # "ack"}}

\* The patterns a caller polls with: none, one known id, the ids of the last
\* request together, or an id that no reply carries (0).
Patterns ==
    {AnyPattern} \cup
    {create_exact_match_pattern(<<id>>) : id \in KnownIds \cup {0}} \cup
    {create_exact_match_pattern(RequestIdsOf(req))}

\* poll(pattern, block=False): one attempt, NoMessage goes to the caller.
PollNonblock(pat) ==
    /\ pc = "idle"
    /\ pattern' = pat
    /\ LET r == PollOnce(response_buffer, recv_socket, pat) IN
       /\ response_buffer' = r.buffer
       /\ recv_socket' = r.socket
       /\ received' = received \cup Range(r.pulled)
       /\ IF r.no_message
          THEN ret' = RaiseNoMessage /\ delivered' = delivered
          ELSE /\ ret' = ReturnPayload(r.payload[1])
               /\ delivered' = delivered \cup Delivery(r)
    /\ UNCHANGED <<handler_routing, send_sockets, next_id, pc, req, req_args, req_no_syn, idx,
                   n_built, worker_pos, syn_observed>>

\* poll(pattern, block=True) is entered ...
PollBlockBegin(pat) ==
    /\ pc = "idle"
    /\ pc' = "poll_block"
    /\ pattern' = pat
    /\ ret' = NoReturn
    /\ UNCHANGED <<handler_routing, send_sockets, recv_socket, response_buffer,
                   next_id, req, req_args, req_no_syn, idx, n_built, worker_pos, received,
                   delivered, syn_observed>>

\* ... and retries _poll_batch_nonblock until it does not raise NoMessage.
PollBlockAttempt ==
    /\ pc = "poll_block"
    /\ LET r == PollOnce(response_buffer, recv_socket, pattern) IN
       /\ response_buffer' = r.buffer
       /\ recv_socket' = r.socket
       /\ received' = received \cup Range(r.pulled)
       /\ IF r.no_message
          THEN UNCHANGED <<pc, ret, delivered>>
          ELSE /\ pc' = "idle"
               /\ ret' = ReturnPayload(r.payload[1])
               /\ delivered' = delivered \cup Delivery(r)
    /\ UNCHANGED <<handler_routing, send_sockets, next_id, req, req_args, req_no_syn, idx,
                   pattern, n_built, worker_pos, syn_observed>>

\* ----------------------------------------------------------------- gather
\* The request id lists a caller gathers: the ids the last request returned,
\* in that order or in the opposite one.
Reverse(l) == [k \in DOMAIN l |-> l[Len(l) + 1 - k]]

GatherLists ==
    IF req = <<>> THEN {} ELSE {RequestIdsOf(req), Reverse(RequestIdsOf(req))}

Gathering(ids) == [kind |-> "gathering", ids |-> ids, payload |-> <<>>, data |-> <<>>]

\* (mutant) every poll of gather takes the reply to any of the ids
GatherPatternAnyOf(ids, k) == create_exact_match_pattern(ids)

\* pattern=create_exact_match_pattern([req_id]), for req_id in request_ids
GatherPattern(ids, k) == create_exact_match_pattern(<<ids[k]>>)

\* return [r.data for r in responses]
ReturnData(ids, responses) ==
    [kind |-> "data", ids |-> ids, payload |-> <<>>,
     data |-> [k \in DOMAIN responses |-> responses[k].data]]

\* gather(request_ids) is entered ...
GatherBegin(ids) ==
    /\ pc = "idle"
    /\ ret.kind = "ids"
    /\ pc' = "gather"
    /\ ret' = Gathering(ids)
    /\ idx' = 1
    /\ UNCHANGED <<handler_routing, send_sockets, recv_socket, response_buffer,
                   next_id, req, req_args, req_no_syn, pattern, n_built, worker_pos, received,
                   delivered, syn_observed>>

\* ... and polls block=True with the pattern of request_ids[idx]; one attempt
\* of that poll, NoMessage is retried.  After the last id the data of the
\* responses are returned.
GatherAttempt ==
    /\ pc = "gather"
    /\ pattern' = GatherPattern(ret.ids, idx)
    /\ LET r == PollOnce(response_buffer, recv_socket, pattern') IN
       /\ response_buffer' = r.buffer
       /\ recv_socket' = r.socket
       /\ received' = received \cup Range(r.pulled)
       /\ IF r.no_message
          THEN UNCHANGED <<pc, idx, ret, delivered>>
          ELSE /\ delivered' = delivered \cup Delivery(r)
               /\ IF idx < Len(ret.ids)
                  THEN /\ idx' = idx + 1
                       /\ pc' = pc
                       /\ ret' = [ret EXCEPT !.payload = Append(@, r.payload[1])]
                  ELSE /\ idx' = 1
                       /\ pc' = "idle"
                       /\ ret' = ReturnData(ret.ids, Append(ret.payload, r.payload[1]))
    /\ UNCHANGED <<handler_routing, send_sockets, next_id, req, req_args, req_no_syn, n_built,
                   worker_pos, syn_observed>>

\* ------------------------------------------------------------ model worker
\* What a worker answers to payload number n of its socket: a request with
\* no_syn=False is answered by its SYN, the ACK of such a request by the
\* request's reply, a request with no_syn=True by its reply at once.
WorkerAnswer(sock, n) ==
    LET p == sock[n] IN
    IF p.handle_name = "ack"
    THEN {sock[k].request_id : k \in {j \in 1..(n - 1) : sock[j].ack_reply_id = p.request_id}}
    ELSE IF p.no_syn THEN {p.request_id} ELSE {p.syn_reply_id}

\* The data of a worker's answer: a SYN carries none, the reply to a request
\* carries the result of that request, which is the worker's own and differs
\* from request to request.
WorkerData(sock, n, id, w) ==
    IF \E k \in 1..n : sock[k].handle_name # "ack" /\ sock[k].request_id = id
    THEN [kind |-> "result", ids |-> {}, samples |-> <<w, n>>]
    ELSE NoData

\* NameResolvingReplyServer.poll, then post: the worker takes the next payload
\* of its socket and sends the answer to it.
WorkerServe(w) ==
    /\ worker_pos[w] < Len(send_sockets[w])
    /\ worker_pos' = [worker_pos EXCEPT ![w] = @ + 1]
    /\ \E id \in WorkerAnswer(send_sockets[w], worker_pos[w] + 1) :
          recv_socket' = Append(recv_socket,
              Reply(id, w, WorkerData(send_sockets[w], worker_pos[w] + 1, id, w)))
    /\ UNCHANGED <<handler_routing, send_sockets, response_buffer, next_id, pc, req, req_args,
                   req_no_syn, idx, pattern, ret, n_built, received, delivered,
                   syn_observed>>

\* ============================================================== rendezvous
\* names.request_reply_stream(experiment_name, trial_name, "master_send_<i>")
MasterSendName(i) == [stream |-> "master_send", index |-> i]

\* names.request_reply_stream(experiment_name, trial_name, "master_recv")
MasterRecvName == [stream |-> "master_recv", index |-> 0]

\* (mutant) the master waits at the barrier before it publishes its addresses
ClientProgramBarrierFirst ==
    <<[op |-> "barrier", name |-> MasterRecvName]>>
    \o [i \in 1..NWorkers |-> [op |-> "add", name |-> MasterSendName(i)]]
    \o <<[op |-> "add", name |-> MasterRecvName]>>

\* NameResolvingRequestClient.__init__: one send socket per subscriber is bound
\* and its address added, then the receive socket, then the barrier loop.
ClientProgram ==
    [i \in 1..NWorkers |-> [op |-> "add", name |-> MasterSendName(i)]]
    \o <<[op |-> "add", name |-> MasterRecvName],
         [op |-> "barrier", name |-> MasterRecvName]>>

ClientReady == client_step > Len(ClientProgram)

\* (mutant) the barrier loop is left one subscriber early
BarrierIncompleteOffByOne(n_seen, n_subscribers) == n_seen < n_subscribers - 1

\* while len(name_resolve.get_subtree(barrier)) < n_subscribers
BarrierIncomplete(n_seen, n_subscribers) == n_seen < n_subscribers

\* name_resolve.add(name=master_send_name / master_recv_name, value=address)
ClientAdd ==
    /\ ~ClientReady
    /\ ClientProgram[client_step].op = "add"
    /\ name_entries' = name_entries \cup {ClientProgram[client_step].name}
    /\ client_step' = client_step + 1
    /\ UNCHANGED <<barrier_subtree, client_polls, server_step, server_elapsed,
                   server_accepted, stale_names, stale_markers, launch_vars>>

\* One turn of the barrier loop: the constructor ends when enough sub-entries
\* are there and sleeps otherwise; the loop has no other exit.
ClientBarrierPoll ==
    /\ ~ClientReady
    /\ ClientProgram[client_step].op = "barrier"
    /\ IF BarrierIncomplete(Cardinality(barrier_subtree) + Cardinality(stale_markers),
                            NWorkers)
       THEN /\ client_polls' = IF client_polls < MaxBarrierPolls
                               THEN client_polls + 1 ELSE client_polls
            /\ UNCHANGED client_step
       ELSE /\ client_step' = client_step + 1
            /\ UNCHANGED client_polls
    /\ UNCHANGED <<name_entries, barrier_subtree, server_step, server_elapsed,
                   server_accepted, stale_names, stale_markers, launch_vars>>

\* (mutant) the worker announces itself before it looks for the master
ServerProgramBarrierFirst(idx_) ==
    <<[op |-> "accept", name |-> MasterRecvName],
      [op |-> "add_subentry", name |-> MasterRecvName],
      [op |-> "wait", name |-> MasterRecvName],
      [op |-> "wait", name |-> MasterSendName(idx_)]>>

\* NameResolvingReplyServer.__init__(idx): wait for master_recv, wait for
\* master_send_<idx>, accept, add the barrier sub-entry.
ServerProgram(idx_) ==
    <<[op |-> "wait", name |-> MasterRecvName],
      [op |-> "wait", name |-> MasterSendName(idx_)],
      [op |-> "accept", name |-> MasterRecvName],
      [op |-> "add_subentry", name |-> MasterRecvName]>>

\* server_step[w] = 0: the constructor raised TimeoutError.
ServerTimedOut(w) == server_step[w] = 0

ServerReady(w) == server_step[w] > Len(ServerProgram(w))

ServerAt(w, op) ==
    /\ ~ServerTimedOut(w) /\ ~ServerReady(w)
    /\ ServerProgram(w)[server_step[w]].op = op

\* name_resolve.wait(name, timeout): the value once the name is there;
\* otherwise it blocks, up to the timeout, and then raises TimeoutError.
NameResolveWait(present, elapsed, timeout) ==
    IF present THEN [outcome |-> "value", elapsed |-> 0]
    ELSE IF elapsed >= timeout THEN [outcome |-> "TimeoutError", elapsed |-> elapsed]
    ELSE [outcome |-> "blocked",
          elapsed |-> IF elapsed + PollStep > timeout THEN timeout ELSE elapsed + PollStep]

\* try: name_resolve.wait(name, timeout=300) / except TimeoutError: raise
ServerWait(w) ==
    /\ ServerAt(w, "wait")
    /\ LET r == NameResolveWait(ServerProgram(w)[server_step[w]].name
                                    \in name_entries \cup stale_names,
                                server_elapsed[w], WaitTimeout) IN
       /\ server_elapsed' = [server_elapsed EXCEPT ![w] = r.elapsed]
       /\ server_step' = [server_step EXCEPT ![w] =
             IF r.outcome = "value" THEN @ + 1
             ELSE IF r.outcome = "TimeoutError" THEN 0 ELSE @]
    /\ UNCHANGED <<name_entries, barrier_subtree, client_step, client_polls,
                   server_accepted, stale_names, stale_markers, launch_vars>>

\* self.accept(master_send_addr, master_recv_addr): both sockets connect.
ServerAccept(w) ==
    /\ ServerAt(w, "accept")
    /\ server_accepted' = server_accepted \cup {w}
    /\ server_step' = [server_step EXCEPT ![w] = @ + 1]
    /\ UNCHANGED <<name_entries, barrier_subtree, client_step, client_polls,
                   server_elapsed, stale_names, stale_markers, launch_vars>>

\* name_resolve.add_subentry(PUBSUB_BARRIER_NAME, host, keepalive_ttl=1200)
ServerAddSubentry(w) ==
    /\ ServerAt(w, "add_subentry")
    /\ barrier_subtree' = barrier_subtree \cup {w}
    /\ server_step' = [server_step EXCEPT ![w] = @ + 1]
    /\ UNCHANGED <<name_entries, client_step, client_polls, server_elapsed,
                   server_accepted, stale_names, stale_markers, launch_vars>>

\* ------------------------------------------------------------- main_start
\* --mode, --recover_mode (choices) and --recover_retries of the command line
LaunchArgs ==
    [mode : {"local", "slurm", "ray"},
     recover_mode : {"disabled", "auto", "resume", "fault"},
     recover_retries : 0..MaxRetries]

\* The defaults of --recover_mode and --recover_retries, on a cluster.
DefaultArgs == [mode |-> "slurm", recover_mode |-> "disabled", recover_retries |-> 1]

\* str(uuid.uuid4())
JobGroupIds == {"uuid-a", "uuid-b"}

NoException == [kind |-> "None", reason |-> "None"]

\* What sched.wait raises into the except clause: a JobException with the
\* state of the job as its reason, KeyboardInterrupt or TimeoutError.
WaitExceptions ==
    {[kind |-> "JobException", reason |-> r] :
        r \in {"CANCELLED", "FAILED", "NOT_FOUND", "COMPLETED"}}
    \cup {[kind |-> "KeyboardInterrupt", reason |-> "None"],
          [kind |-> "TimeoutError", reason |-> "None"]}

\* recover_states = [JobState.CANCELLED, JobState.FAILED, JobState.NOT_FOUND]
recover_states == {"CANCELLED", "FAILED", "NOT_FOUND"}

\* (mutant) a run whose count has reached recover_retries is recovered once more
RecoverThisInclusive(a, count, e) ==
    /\ a.recover_mode \in {"auto", "fault"}
    /\ count <= a.recover_retries
    /\ (IF e.kind = "JobException" THEN e.reason ELSE "None") \in recover_states

\* recover_this = args.recover_mode in ["auto", "fault"] and recover_count <
\* args.recover_retries; recover_this = recover_this and reason in recover_states
RecoverThis(a, count, e) ==
    /\ a.recover_mode \in {"auto", "fault"}
    /\ count < a.recover_retries
    /\ (IF e.kind = "JobException" THEN e.reason ELSE "None") \in recover_states

\* (mutant) the reset leaves the entries where they are
clear_subtree_kept(entries) == entries

\* name_resolve.clear_subtree(names.trial_root(...)): every entry under the
\* root of the trial is removed
clear_subtree(entries) == {}

\* main_start up to the reset of the repo: the job group id is drawn when none
\* was passed, the experiment is set up, which may raise, and a local run
\* takes no recover mode.
MainStart ==
    /\ main_pc = "start"
    /\ job_group_id' \in (IF job_group_id = "" THEN JobGroupIds ELSE {job_group_id})
    /\ \E setup_ok \in BOOLEAN :
          IF ~setup_ok
          THEN main_pc' = "raised" /\ main_exc' = [kind |-> "RuntimeError", reason |-> "None"]
          ELSE IF args.mode = "local" /\ args.recover_mode # "disabled"
          THEN main_pc' = "raised"
               /\ main_exc' = [kind |-> "AssertionError", reason |-> "None"]
          ELSE main_pc' = "reset" /\ UNCHANGED main_exc
    /\ UNCHANGED <<stream_vars, exec_vars, load_vars, repo_vars, endpoint_vars, args,
                   recover_count, sched_jobs, recover_this, restarts>>

\* try: name_resolve.clear_subtree(trial_root); time.sleep(5) / except: raise
ResetNameResolve ==
    /\ main_pc = "reset"
    /\ \E cleared \in BOOLEAN :
          IF cleared
          THEN /\ name_entries' = clear_subtree(name_entries)
               /\ barrier_subtree' = clear_subtree(barrier_subtree)
               /\ stale_names' = clear_subtree(stale_names)
               /\ stale_markers' = clear_subtree(stale_markers)
               /\ main_pc' = "submit"
               /\ UNCHANGED main_exc
          ELSE /\ main_pc' = "raised"
               /\ main_exc' = [kind |-> "Exception", reason |-> "None"]
               /\ UNCHANGED repo_vars
    /\ UNCHANGED <<stream_vars, exec_vars, load_vars, endpoint_vars, args, job_group_id,
                   recover_count, sched_jobs, recover_this, restarts>>

\* The jobs of a run: the controller, and the workers unless the controller
\* starts them itself (ray).
JobsOf(mode) == {"ctl"} \cup (IF mode # "ray" THEN {"workers"} ELSE {})

\* sched.submit_array(worker_type="ctl", ...) and _submit_workers(...): the
\* processes start, and with them the constructors of the two endpoints.
SubmitJobs ==
    /\ main_pc = "submit"
    /\ sched_jobs' = JobsOf(args.mode)
    /\ client_step' = 1
    /\ client_polls' = 0
    /\ server_step' = [w \in Workers |-> 1]
    /\ server_elapsed' = [w \in Workers |-> 0]
    /\ server_accepted' = {}
    /\ main_pc' = "wait"
    /\ UNCHANGED <<stream_vars, exec_vars, load_vars, repo_vars, args, job_group_id,
                   recover_count, main_exc, recover_this, restarts>>

\* sched.wait(...) returns: the jobs have run to their end.
WaitReturns ==
    /\ main_pc = "wait"
    /\ ClientReady /\ \A w \in Workers : ServerReady(w)
    /\ main_pc' = "returned"
    /\ UNCHANGED <<stream_vars, exec_vars, load_vars, repo_vars, endpoint_vars, args,
                   job_group_id, recover_count, sched_jobs, main_exc, recover_this,
                   restarts>>

\* sched.wait(...) raises e; the except clause derives recover_this.
WaitRaises(e) ==
    /\ main_pc = "wait"
    /\ main_exc' = e
    /\ recover_this' = RecoverThis(args, recover_count, e)
    /\ main_pc' = "stop_all"
    /\ UNCHANGED <<stream_vars, exec_vars, load_vars, repo_vars, endpoint_vars, args,
                   job_group_id, recover_count, sched_jobs, restarts>>

\* sched.stop_all(kill_signal): the processes of the run are gone, what they
\* have added to the repo stays; then `raise e` unless the run is recovered.
StopAll ==
    /\ main_pc = "stop_all"
    /\ sched_jobs' = {}
    /\ stale_names' = stale_names \cup name_entries
    /\ stale_markers' = stale_markers \cup
                           {[host |-> w, run |-> recover_count] : w \in barrier_subtree}
    /\ name_entries' = {}
    /\ barrier_subtree' = {}
    /\ main_pc' = IF recover_this THEN "recover" ELSE "raised"
    /\ UNCHANGED <<stream_vars, exec_vars, load_vars, endpoint_vars, args, job_group_id,
                   recover_count, main_exc, recover_this, restarts>>

\* time.sleep(args.recover_after);
\* main_start(args, job_group_id=job_group_id, recover_count=recover_count + 1)
Recover ==
    /\ main_pc = "recover"
    /\ recover_count' = recover_count + 1
    /\ restarts' = restarts + 1
    /\ main_pc' = "start"
    /\ UNCHANGED <<stream_vars, exec_vars, load_vars, repo_vars, endpoint_vars, args,
                   job_group_id, sched_jobs, main_exc, recover_this>>

\* The launcher while the jobs it has submitted run.
LaunchWaiting ==
    /\ args = DefaultArgs
    /\ job_group_id = "uuid-a"
    /\ recover_count = 0
    /\ main_pc = "wait"
    /\ sched_jobs = JobsOf(DefaultArgs.mode)
    /\ main_exc = NoException
    /\ recover_this = FALSE
    /\ restarts = 0
    /\ stale_names = {}
    /\ stale_markers = {}

\* The launcher when main_start is called from the command line; an earlier
\* launch of the same trial may have left its entries in the repo.
LauncherInit ==
    /\ args \in LaunchArgs
    /\ job_group_id = ""
    /\ recover_count = 0
    /\ main_pc = "start"
    /\ sched_jobs = {}
    /\ main_exc = NoException
    /\ recover_this = FALSE
    /\ restarts = 0
    /\ name_entries = {}
    /\ barrier_subtree = {}
    /\ \E left \in BOOLEAN :
          /\ stale_names = IF left THEN {MasterSendName(i) : i \in Workers}
                                         \cup {MasterRecvName}
                           ELSE {}
          /\ stale_markers = IF left THEN {[host |-> w, run |-> -1] : w \in Workers}
                             ELSE {}
    /\ client_step = 1
    /\ client_polls = 0
    /\ server_step = [w \in Workers |-> 1]
    /\ server_elapsed = [w \in Workers |-> 0]
    /\ server_accepted = {}

\* Before any endpoint is constructed: the name resolving repo is empty.
RdvInit ==
    /\ LaunchWaiting
    /\ name_entries = {}
    /\ barrier_subtree = {}
    /\ client_step = 1
    /\ client_polls = 0
    /\ server_step = [w \in Workers |-> 1]
    /\ server_elapsed = [w \in Workers |-> 0]
    /\ server_accepted = {}

\* After both constructors have returned.
RdvDone ==
    /\ LaunchWaiting
    /\ name_entries = {MasterSendName(i) : i \in Workers} \cup {MasterRecvName}
    /\ barrier_subtree = Workers
    /\ client_step = Len(ClientProgram) + 1
    /\ client_polls = 0
    /\ server_step = [w \in Workers |-> Len(ServerProgram(w)) + 1]
    /\ server_elapsed = [w \in Workers |-> 0]
    /\ server_accepted = Workers

RdvNext ==
    \/ ClientAdd
    \/ ClientBarrierPoll
    \/ \E w \in Workers : ServerWait(w)
    \/ \E w \in Workers : ServerAccept(w)
    \/ \E w \in Workers : ServerAddSubentry(w)


\* ================================================================ executor
\* ------------------------------------------------------- the dataflow graph
Nodes == DOMAIN G

\* The graphs of a run: every dependency relation over 1..n, n <= MaxNodes,
\* whose edges lead from a lower to a higher node.
Graphs ==
    UNION {{g \in [1..n -> SUBSET (1..n)] : \A m \in 1..n : \A p \in g[m] : p < m} :
              n \in 1..MaxNodes}

SetMax(S) == CHOOSE x \in S : \A y \in S : y <= x

\* nx.topological_generations: a node without predecessors is in the first
\* generation, any other node in the one after its latest predecessor.
RECURSIVE Generation(_, _)
Generation(g, n) ==
    IF g[n] = {} THEN 1 ELSE 1 + SetMax({Generation(g, p) : p \in g[n]})

GenerationNodes(g, level) == {n \in DOMAIN g : Generation(g, n) = level}

\* self.topo_widths: len(generation) for each generation, in order
topo_widths(g) ==
    [level \in 1..SetMax({Generation(g, n) : n \in DOMAIN g}) |->
        Cardinality(GenerationNodes(g, level))]

\* MFCDef.is_src / MFCDef.is_dst
is_src(g, n) == g[n] = {}
is_dst(g, n) == \A m \in DOMAIN g : n \notin g[m]

\* FunctionExecutor.get_leaf_tasks
get_leaf_tasks(g) == {n \in DOMAIN g : is_dst(g, n)}

\* max(rpc.n_seqs for rpc in self.rpcs)
MaxNSeqs == SetMax({n_seqs[n] : n \in Nodes})

\* ---------------------------------------------------------- request (sync)
RECURSIVE PostAll(_, _, _)
PostAll(socks, routing, reqs) ==
    IF reqs = <<>> THEN socks
    ELSE PostAll(PostOn(socks, routing, Head(reqs)), routing, Tail(reqs))

\* handlers=list(range(self.n_model_workers))
AllWorkers == [k \in 1..NWorkers |-> k]

\* uuid4 draws ids that no other payload carries: the payloads of the
\* executor's k-th request of a kind take theirs from a range of their own.
FreshIds(handle_type, k) ==
    (CASE handle_type = "flush" -> 1000
       [] handle_type = "clear_data_cache" -> 2000
       [] handle_type = "fetch" -> 3000) + 100 * k

\* request(..., no_syn: bool = True): flush_calls and call_async do not pass
\* no_syn, clear_gpu_cache passes True.
no_syn_default == TRUE

\* self.stream.request(handlers, handle_type, datas) with no_syn=True, as the
\* executor calls it: every payload is posted and the call returns.
ExecRequest(handlers, handle_type, datas, k) ==
    send_sockets' = PostAll(send_sockets, handler_routing,
                            BuildRequests(handlers, handle_type, datas, no_syn_default,
                                          FreshIds(handle_type, k)))

PostedOf(handle_type, w) ==
    SelectSeq(send_sockets[w], LAMBDA p : p.handle_name = handle_type)

\* ------------------------------------------------ ModelFunctionCall.run
\* The samples a node works on: the first n_seqs slots of the buffer.
NodeBatch(n) ==
    {buffer[i].id : i \in {j \in DOMAIN buffer : j <= n_seqs[n]}}

\* The node task issues its request once its predecessors have completed and
\* the buffer holds the samples it requires.
NodeRequest(n) ==
    /\ step_pc = "running"
    /\ node_state[n] = "waiting"
    /\ \A p \in G[n] : node_state[p] = "done"
    /\ Len(buffer) >= n_seqs[n]
    /\ node_state' = [node_state EXCEPT ![n] = "requested"]
    /\ UNCHANGED <<stream_vars, rdv_vars, load_vars, config_vars, topo_level_count,
                   train_count, flush_level, flush_got, flush_log, finish_got,
                   finish_pc, lock, ids_to_clear, used_hash_vals_this_epoch, tracker,
                   buffer>>

\* On completion the node signals the level counter; a terminal node also adds
\* its samples to ids_to_clear under the lock, signals train_count, and the
\* last terminal node to complete frees the consumed slots of the buffer.
NodeComplete(n) ==
    /\ step_pc = "running"
    /\ node_state[n] = "requested"
    /\ node_state' = [node_state EXCEPT ![n] = "done"]
    /\ topo_level_count' = Append(topo_level_count, n)
    /\ IF is_dst(G, n)
       THEN /\ lock = "free"
            /\ ids_to_clear' = ids_to_clear \cup NodeBatch(n)
            /\ train_count' = Append(train_count, n)
            /\ buffer' = IF \A m \in get_leaf_tasks(G) : node_state'[m] = "done"
                         THEN SelectSeq(buffer, LAMBDA s : s.id \notin ids_to_clear')
                         ELSE buffer
       ELSE UNCHANGED <<ids_to_clear, train_count, buffer>>
    /\ UNCHANGED <<stream_vars, rdv_vars, load_vars, config_vars, flush_level,
                   flush_got, flush_log, finish_got, finish_pc, lock,
                   used_hash_vals_this_epoch, tracker>>

\* ------------------------------------------------------------- flush_calls
\* (mutant) the flush is issued one signal early
LevelCountedEarly(got, w) == got + 1 >= w

\* (mutant) the flush waits for one signal more than the generation has
LevelCountedOneMore(got, w) == got = w + 1

\* for _ in range(w): await self.ctrl.topo_level_count.get()
LevelCounted(got, w) == got = w

FlushDone == flush_level > Len(topo_widths(G))

\* One get() of flush_calls; after the w-th of a generation the broadcast
\* "flush" request is issued (no await lies between the two).
FlushGet ==
    /\ step_pc = "running"
    /\ ~FlushDone
    /\ topo_level_count # <<>>
    /\ topo_level_count' = Tail(topo_level_count)
    /\ LET got == Append(flush_got, Head(topo_level_count)) IN
       IF LevelCounted(Len(got), topo_widths(G)[flush_level])
       THEN /\ ExecRequest(AllWorkers, "flush", NoDatas(AllWorkers), flush_level)
            /\ flush_log' = Append(flush_log, [level |-> flush_level, signals |-> got])
            /\ flush_level' = flush_level + 1
            /\ flush_got' = <<>>
       ELSE /\ flush_got' = got
            /\ UNCHANGED <<send_sockets, flush_log, flush_level>>
    /\ UNCHANGED <<handler_routing, next_id, recv_socket, response_buffer, worker_pos,
                   caller_vars, rdv_vars, load_vars, config_vars, node_state,
                   train_count, finish_got, finish_pc, lock, ids_to_clear,
                   used_hash_vals_this_epoch, tracker, buffer>>

\* ---------------------------------------------------------- finish_traverse
\* (mutant) the traversal counts one leaf task less
LeavesCountedShort(got, leaves) == got + 1 >= Cardinality(leaves)

\* for _ in range(len(self.get_leaf_tasks())): await self.ctrl.train_count.get()
LeavesCounted(got, leaves) == got = Cardinality(leaves)

FinishGet ==
    /\ step_pc = "running"
    /\ finish_pc = "wait"
    /\ train_count # <<>>
    /\ train_count' = Tail(train_count)
    /\ finish_got' = Append(finish_got, Head(train_count))
    /\ finish_pc' = IF LeavesCounted(Len(finish_got'), get_leaf_tasks(G))
                    THEN "lock" ELSE "wait"
    /\ UNCHANGED <<stream_vars, rdv_vars, load_vars, config_vars, node_state,
                   topo_level_count, flush_level, flush_got, flush_log, lock,
                   ids_to_clear, used_hash_vals_this_epoch, tracker, buffer>>

\* list(self.ctrl.ids_to_clear): the ids in the order the set yields them
ListsOf(S) == {l \in [1..Cardinality(S) -> S] : Range(l) = S}

\* (mutant) the broadcast names no id
ClearDatasEmpty(ids) == [k \in 1..NWorkers |-> [kind |-> "ids", ids |-> {}, samples |-> <<>>]]

\* datas=[self.ctrl.ids_to_clear for _ in range(self.n_model_workers)]
ClearDatas(ids) == [k \in 1..NWorkers |-> [kind |-> "ids", ids |-> ids, samples |-> <<>>]]

\* (mutant) the cleared ids are not remembered
AddUsedNothing(used, l) == used

\* self.ctrl.used_hash_vals_this_epoch += list(self.ctrl.ids_to_clear)
AddUsed(used, l) == used \o l

\* clear_gpu_cache up to its await: the lock is taken, the ids are added to
\* used_hash_vals_this_epoch and the "clear_data_cache" request is broadcast.
ClearRequest ==
    /\ step_pc = "running"
    /\ finish_pc = "lock"
    /\ lock = "free"
    /\ lock' = "clear_gpu_cache"
    /\ \E l \in ListsOf(ids_to_clear) :
          used_hash_vals_this_epoch' = AddUsed(used_hash_vals_this_epoch, l)
    /\ ExecRequest(AllWorkers, "clear_data_cache", ClearDatas(ids_to_clear), 1)
    /\ finish_pc' = "clear_data"
    /\ UNCHANGED <<handler_routing, next_id, recv_socket, response_buffer, worker_pos,
                   caller_vars, rdv_vars, load_vars, config_vars, node_state,
                   topo_level_count, train_count, flush_level, flush_got, flush_log,
                   finish_got, ids_to_clear, tracker, buffer>>

\* (mutant) only the records under the first key are removed
clear_data_first_key(records, ids) ==
    {r \in records : ~(r.id \in ids /\ r.key = DataKeys[1])}

\* GlobalStorageTracker.clear_data: every ownership record of the given ids,
\* under any worker and key, is removed.
clear_data(records, ids) == {r \in records : r.id \notin ids}

\* await self.storage_tracker.clear_data(ids_to_clear); ids_to_clear.clear();
\* the lock is released.
ClearData ==
    /\ step_pc = "running"
    /\ finish_pc = "clear_data"
    /\ tracker' = clear_data(tracker, ids_to_clear)
    /\ ids_to_clear' = {}
    /\ lock' = "free"
    /\ finish_pc' = "done"
    /\ UNCHANGED <<stream_vars, rdv_vars, load_vars, config_vars, node_state,
                   topo_level_count, train_count, flush_level, flush_got, flush_log,
                   finish_got, used_hash_vals_this_epoch, buffer>>

\* ---------------------------------------------------------------- load_data
\* self.src_dp_size: the data-parallel degree of the source node's model
src_dp_size == NWorkers

\* f"__data{dp_idx}__": the handlers of the data-parallel source ranks, which
\* the routing table lists after the workers' own indices.
DataHandler(dp_idx) == NWorkers + 1 + dp_idx

DataHandlers == [k \in 1..src_dp_size |-> DataHandler(k)]

\* What a source rank answers to "fetch": None, a DataBatchMeta whose
\* meta_sample is None, or one with samples (their ids[0], in unpack() order).
NoneResponse == NoData
NoMetaSample == [kind |-> "NoMetaSample", ids |-> {}, samples |-> <<>>]
Batch(samples) == [kind |-> "DataBatchMeta", ids |-> {}, samples |-> samples]

SampleIds == 1..MaxIds

FetchResponses ==
    {NoneResponse, NoMetaSample} \cup {Batch(l) : l \in SeqsUpTo(SampleIds, MaxBatch)}

FetchReply(id, w, x) ==
    [handler |-> w, handle_name |-> "reply",
     request_id |-> id, syn_reply_id |-> 0, ack_reply_id |-> 0,
     no_syn |-> TRUE, data |-> x]

\* (mutant) the loop asks for one sample more
NeedsFetchInclusive(size, need) == size <= need

\* while self.buffer.size < max(rpc.n_seqs for rpc in self.rpcs)
NeedsFetch(size, need) == size < need

\* The loop condition and, when it holds, call_async up to its await: the
\* "fetch" request goes to every source rank.
LoadLoop ==
    /\ step_pc = "running"
    /\ load_pc = "loop"
    /\ IF NeedsFetch(Len(buffer), MaxNSeqs)
       THEN /\ load_rounds < MaxRounds
            /\ ExecRequest(DataHandlers, "fetch", NoDatas(DataHandlers), load_rounds + 1)
            /\ load_ids' = RequestIdsOf(BuildRequests(DataHandlers, "fetch",
                                            NoDatas(DataHandlers), TRUE,
                                            FreshIds("fetch", load_rounds + 1)))
            /\ load_resps' = [k \in 1..src_dp_size |-> <<>>]
            /\ load_rounds' = load_rounds + 1
            /\ all_data' = <<>>
            /\ gpu_id_data' = <<>>
            /\ load_pc' = "gather"
       ELSE /\ load_pc' = "done"
            /\ UNCHANGED <<send_sockets, load_ids, load_resps, load_rounds,
                           all_data, gpu_id_data>>
    /\ UNCHANGED <<handler_routing, next_id, recv_socket, response_buffer,
                   worker_pos, caller_vars, rdv_vars, exec_vars, received_ids, load_adds,
                   received_log, rounds_recorded>>

\* (mutant) every waiter polls without a pattern
GatherAsyncPatternNone(ids, k) == AnyPattern

\* self.poll_async(pattern=create_exact_match_pattern([req_id])), for req_id
\* in request_ids
GatherAsyncPattern(ids, k) == create_exact_match_pattern(<<ids[k]>>)

\* gather_async: one attempt of poll_async for the request of rank k; the
\* waiters of the ranks take turns, NoMessage is retried after a sleep.
LoadPoll(k) ==
    /\ step_pc = "running"
    /\ load_pc = "gather"
    /\ load_resps[k] = <<>>
    /\ LET r == PollOnce(response_buffer, recv_socket,
                         GatherAsyncPattern(load_ids, k)) IN
       /\ response_buffer' = r.buffer
       /\ recv_socket' = r.socket
       /\ load_resps' = IF r.no_message THEN load_resps
                        ELSE [load_resps EXCEPT ![k] = <<r.payload[1].data>>]
    /\ load_pc' = IF \A j \in DOMAIN load_resps : load_resps'[j] # <<>>
                  THEN "process" ELSE "gather"
    /\ UNCHANGED <<handler_routing, send_sockets, next_id, worker_pos, caller_vars,
                   rdv_vars, exec_vars, load_rounds, load_ids, received_ids, all_data,
                   gpu_id_data, load_adds, received_log, rounds_recorded>>

\* (mutant) no id counts as received before
IsDuplicateNever(id, seen) == FALSE

\* if xx.ids[0] in received_ids
IsDuplicate(id, seen) == id \in seen

\* for xx in x.meta_sample.unpack(): raise on a duplicate, else add to
\* received_ids.  st carries received_ids, the history and the error flag.
RECURSIVE CheckSamples(_, _)
CheckSamples(samples, st) ==
    IF samples = <<>> \/ st.error THEN st
    ELSE CheckSamples(Tail(samples),
            [st EXCEPT !.log = Append(@, Head(samples)),
                       !.error = IsDuplicate(Head(samples), st.received),
                       !.received = IF IsDuplicate(Head(samples), st.received)
                                    THEN @ ELSE @ \cup {Head(samples)}])

\* gpu_id_data[gpu_id] = ... on an insertion-ordered dict
DictSet(d, key, value) ==
    IF \E i \in DOMAIN d : d[i].key = key
    THEN [i \in DOMAIN d |-> IF d[i].key = key THEN [key |-> key, value |-> value] ELSE d[i]]
    ELSE Append(d, [key |-> key, value |-> value])

\* (mutant) all_data = x.meta_sample.unpack()
ExtendReplaced(all, samples) == samples

\* all_data += x.meta_sample.unpack()
Extend(all, samples) == all \o samples

\* for dp_rank, x in enumerate(resps): ranks that sent nothing are skipped, the
\* samples of the others are checked and then added to all_data and gpu_id_data.
RECURSIVE ProcessResps(_, _, _)
ProcessResps(resps, dp_rank, st) ==
    IF dp_rank > Len(resps) \/ st.error THEN st
    ELSE LET x == resps[dp_rank][1] IN
         IF x.kind = "None" \/ x.kind = "NoMetaSample"
         THEN ProcessResps(resps, dp_rank + 1, st)
         ELSE LET c == CheckSamples(x.samples, st) IN
              IF c.error THEN c
              ELSE ProcessResps(resps, dp_rank + 1,
                      [c EXCEPT !.all_data = Extend(@, x.samples),
                                !.gpu_id_data =
                                    DictSet(@, route_to(handler_routing,
                                                        DataHandler(dp_rank)),
                                            x.samples)])

\* random.shuffle(all_data): any order of the list
Perms(l) ==
    {[i \in DOMAIN l |-> l[f[i]]] :
        f \in {h \in [DOMAIN l -> DOMAIN l] : \A i, j \in DOMAIN l : h[i] = h[j] => i = j}}

\* for gpu_id, data in gpu_id_data.items(): for k in data[0].keys: add_data(...)
RECURSIVE AddCalls(_)
AddCalls(d) ==
    IF d = <<>> THEN <<>>
    ELSE [k \in DOMAIN DataKeys |->
             [gpu_id |-> Head(d).key, ids |-> Head(d).value, key |-> DataKeys[k]]]
         \o AddCalls(Tail(d))

\* Some rank sent samples, so that `async with ctrl.lock` is reached.
HasSamples(resps) == \E k \in DOMAIN resps : resps[k][1].kind = "DataBatchMeta"

\* (mutant) the round is stored whether or not it brought data
HasDataAlways(all) == TRUE

\* if len(all_data) > 0
HasData(all) == Len(all) > 0

\* The responses of the round are walked through, up to the next await.  The
\* lock of the duplicate check is free when it is taken.
LoadProcess ==
    /\ step_pc = "running"
    /\ load_pc = "process"
    /\ HasSamples(load_resps) => lock = "free"
    /\ LET st == ProcessResps(load_resps, 1,
                    [received |-> received_ids, log |-> received_log, error |-> FALSE,
                     all_data |-> <<>>, gpu_id_data |-> <<>>]) IN
       /\ received_ids' = st.received
       /\ received_log' = st.log
       /\ gpu_id_data' = st.gpu_id_data
       /\ IF st.error
          THEN /\ load_pc' = "error"
               /\ all_data' = st.all_data
               /\ load_adds' = <<>>
          ELSE /\ all_data' \in (IF shuffle_dataset THEN Perms(st.all_data)
                                 ELSE {st.all_data})
               /\ IF HasData(st.all_data)
                  THEN load_pc' = "add" /\ load_adds' = AddCalls(st.gpu_id_data)
                  ELSE load_pc' = "sleep" /\ load_adds' = <<>>
    /\ UNCHANGED <<stream_vars, rdv_vars, exec_vars, load_rounds, load_ids,
                   load_resps, rounds_recorded>>

\* GlobalStorageTracker.add_data(gpu_id, ids, key, is_owner=True)
add_data(records, gpu_id, ids, key) ==
    records \cup {[worker |-> gpu_id, key |-> key, id |-> ids[i]] : i \in DOMAIN ids}

\* await self.storage_tracker.add_data(...): one call
LoadAddData ==
    /\ step_pc = "running"
    /\ load_pc = "add"
    /\ tracker' = add_data(tracker, Head(load_adds).gpu_id, Head(load_adds).ids,
                           Head(load_adds).key)
    /\ load_adds' = Tail(load_adds)
    /\ rounds_recorded' = rounds_recorded \cup {load_rounds}
    /\ load_pc' = IF Tail(load_adds) = <<>> THEN "put" ELSE "add"
    /\ UNCHANGED <<stream_vars, rdv_vars, config_vars, node_state, topo_level_count,
                   train_count, flush_level, flush_got, flush_log, finish_got,
                   finish_pc, lock, ids_to_clear, used_hash_vals_this_epoch, buffer,
                   load_rounds, load_ids, load_resps, received_ids,
                   all_data, gpu_id_data, received_log>>

\* (mutant) put_batch never waits for room
PutBlocksNever(size, n, max_size) == FALSE

\* AsyncIOSequenceBuffer.put_batch: blocks while size + len(samples) > max_size,
PutBlocks(size, n, max_size) == size + n > max_size

\* then appends the samples
put_batch(buf, samples, round) ==
    buf \o [i \in DOMAIN samples |-> [id |-> samples[i], round |-> round]]

\* and returns the indices it has assigned to them.
put_batch_indices(buf, samples) == [i \in DOMAIN samples |-> Len(buf) + i]

\* buffer_indices = await buffer.put_batch(all_data)
LoadPutBatch ==
    /\ step_pc = "running"
    /\ load_pc = "put"
    /\ ~PutBlocks(Len(buffer), Len(all_data), buffer_max_size)
    /\ buffer' = put_batch(buffer, all_data, load_rounds)
    /\ load_pc' = IF Len(put_batch_indices(buffer, all_data)) = Len(all_data)
                  THEN "loop" ELSE "error"
    /\ UNCHANGED <<stream_vars, rdv_vars, config_vars, node_state, topo_level_count,
                   train_count, flush_level, flush_got, flush_log, finish_got,
                   finish_pc, lock, ids_to_clear, used_hash_vals_this_epoch, tracker,
                   load_rounds, load_ids, load_resps, received_ids,
                   all_data, gpu_id_data, load_adds, received_log, rounds_recorded>>

\* await asyncio.sleep(1)
LoadSleep ==
    /\ step_pc = "running"
    /\ load_pc = "sleep"
    /\ load_pc' = "loop"
    /\ UNCHANGED <<stream_vars, rdv_vars, exec_vars, load_rounds, load_ids,
                   load_resps, received_ids, all_data, gpu_id_data, load_adds,
                   received_log, rounds_recorded>>

\* ----------------------------------------------- model worker (executor run)
\* The next "fetch" of a worker's socket, 0 if there is none.
NextFetch(sock, pos) ==
    IF \E i \in (pos + 1)..Len(sock) : sock[i].handle_name = "fetch"
    THEN CHOOSE i \in (pos + 1)..Len(sock) :
            /\ sock[i].handle_name = "fetch"
            /\ \A j \in (pos + 1)..(i - 1) : sock[j].handle_name # "fetch"
    ELSE 0

\* The worker takes the payloads of its socket up to the next "fetch" and
\* answers it with a batch of its data rank; the executor gathers no answer
\* for "flush" and "clear_data_cache".
ExecWorkerServe(w) ==
    /\ NextFetch(send_sockets[w], worker_pos[w]) # 0
    /\ worker_pos' = [worker_pos EXCEPT ![w] = NextFetch(send_sockets[w], @)]
    /\ \E x \in FetchResponses :
          recv_socket' = Append(recv_socket,
              FetchReply(send_sockets[w][NextFetch(send_sockets[w], worker_pos[w])].request_id,
                         w, x))
    /\ UNCHANGED <<handler_routing, send_sockets, response_buffer, next_id,
                   caller_vars, rdv_vars, exec_vars, load_vars>>

\* ------------------------------------------------------- RedistribPlanner
NoPlan == [targets |-> {}, key |-> "", ids |-> {}, transfers |-> {}]

Owns(records, w, key, id) == [worker |-> w, key |-> key, id |-> id] \in records

Owners(records, key, id) == {w \in Workers : Owns(records, w, key, id)}

\* (mutant) a target that owns the sample is not skipped
LacksAlways(records, w, key, id) == TRUE

\* a target worker lacking a sample
Lacks(records, w, key, id) == ~Owns(records, w, key, id)

\* The target/sample pairs a transfer is emitted for.
PlanPairs(records, targets, key, ids) ==
    {p \in targets \X ids :
        Lacks(records, p[1], key, p[2]) /\ Owners(records, key, p[2]) # {}}

\* plan(targetWorkers, key, sampleIds): for each target worker lacking a sample
\* a transfer from a worker that owns it, any owner being acceptable.
plan(records, targets, key, ids) ==
    LET pairs == PlanPairs(records, targets, key, ids) IN
    {{[src |-> f[p], dst |-> p[1], id |-> p[2], key |-> key] : p \in pairs} :
        f \in {g \in [pairs -> Workers] :
                  \A p \in pairs : g[p] \in Owners(records, key, p[2])}}

\* ------------------------------------------------------------ execute_step
ExecRoutings ==
    {[h \in Workers \cup Range(DataHandlers) |->
        IF h \in Workers THEN h ELSE h - NWorkers - 1]}

\* Every routing table of the source handlers: each "__data<k>__" goes to some
\* worker, two of them to the same one included.
DataRoutings ==
    {[h \in Workers \cup Range(DataHandlers) |-> IF h \in Workers THEN h ELSE f[h]] :
        f \in [Range(DataHandlers) -> Workers]}

\* Samples a previous step left in the buffer, with their ownership records.
Preloaded(k) == [i \in 1..k |-> [id |-> MaxIds + i, round |-> 0]]

PreloadedRecords(k) ==
    {[worker |-> ((i - 1) % NWorkers) + 1, key |-> DataKeys[j], id |-> MaxIds + i] :
        i \in 1..k, j \in DOMAIN DataKeys}

Config(g, ns, shuffle, k) ==
    [G |-> g, n_seqs |-> ns, shuffle_dataset |-> shuffle, preloaded |-> k,
     max_size |-> BufferMaxSize, workers |-> [n \in DOMAIN g |-> Workers]]

\* Runs that start with the buffer filled for two steps: every graph, the
\* nodes' n_seqs going through 1..MaxSeqs in turn.
GraphConfigs ==
    {Config(g, [n \in DOMAIN g |-> ((n - 1) % MaxSeqs) + 1], FALSE, 2 * MaxSeqs) :
        g \in Graphs}

\* Runs of a graph of one node that requires MaxSeqs samples, with any
\* filling of the buffer below and up to that.
LoaderConfigs ==
    {Config(<<{}>>, <<MaxSeqs>>, shuffle, pre) : shuffle \in BOOLEAN, pre \in 0..MaxSeqs}

\* A run whose msid2mwid has no shard of the only node's model: the
\* constructor and execute_step take it as any other.
MisconfiguredConfigs ==
    {[Config(<<{}>>, <<1>>, FALSE, 2 * MaxSeqs) EXCEPT !.workers = <<{}>>]}

IdleConfig == Config(<<{}>>, <<1>>, FALSE, 0)

\* The executor when execute_step is entered.
ExecInit(configs) ==
    /\ \E c \in configs :
          /\ G = c.G
          /\ n_seqs = c.n_seqs
          /\ shuffle_dataset = c.shuffle_dataset
          /\ node_workers = c.workers
          /\ buffer_max_size = c.max_size
          /\ buffer = Preloaded(c.preloaded)
          /\ tracker = PreloadedRecords(c.preloaded)
    /\ redistrib_plan = NoPlan
    /\ step_pc = "running"
    /\ node_state = [n \in DOMAIN G |-> "waiting"]
    /\ topo_level_count = <<>>
    /\ train_count = <<>>
    /\ flush_level = 1
    /\ flush_got = <<>>
    /\ flush_log = <<>>
    /\ finish_got = <<>>
    /\ finish_pc = "wait"
    /\ lock = "free"
    /\ ids_to_clear = {}
    /\ used_hash_vals_this_epoch = <<>>
    /\ load_pc = "loop"
    /\ load_rounds = 0
    /\ load_ids = <<>>
    /\ load_resps = <<>>
    /\ received_ids = {}
    /\ all_data = <<>>
    /\ gpu_id_data = <<>>
    /\ load_adds = <<>>
    /\ received_log = <<>>
    /\ rounds_recorded = {}

ExecIdle == ExecInit({IdleConfig})

\* (mutant) the gather does not wait for finish_traverse
AllTasksDoneButDrain ==
    /\ \A n \in Nodes : node_state[n] = "done"
    /\ FlushDone
    /\ load_pc = "done"

\* Every task handed to asyncio.gather has finished: the node tasks, flush_calls,
\* load_data and finish_traverse.
AllTasksDone ==
    /\ \A n \in Nodes : node_state[n] = "done"
    /\ FlushDone
    /\ load_pc = "done"
    /\ finish_pc = "done"

\* loop.run_until_complete(asyncio.gather(*tasks)) returns ...
ExecuteStepReturn ==
    /\ step_pc = "running"
    /\ AllTasksDone
    /\ step_pc' = "returned"
    /\ UNCHANGED <<stream_vars, rdv_vars, load_vars, G, n_seqs, shuffle_dataset,
                   node_workers, redistrib_plan, buffer_max_size, node_state, topo_level_count, train_count,
                   flush_level, flush_got,
                   flush_log, finish_got, finish_pc, lock, ids_to_clear,
                   used_hash_vals_this_epoch, tracker, buffer>>

\* ... or raises what a task has raised (the ValueError of load_data), which
\* stops the event loop with the other tasks where they are.
ExecuteStepRaise ==
    /\ step_pc = "running"
    /\ load_pc = "error"
    /\ step_pc' = "raised"
    /\ UNCHANGED <<stream_vars, rdv_vars, load_vars, G, n_seqs, shuffle_dataset,
                   node_workers, redistrib_plan, buffer_max_size, node_state, topo_level_count, train_count,
                   flush_level, flush_got,
                   flush_log, finish_got, finish_pc, lock, ids_to_clear,
                   used_hash_vals_this_epoch, tracker, buffer>>

\* The tasks execute_step creates, each taking its steps in the event loop
\* while execute_step runs it; execute_step returning or raising; the workers.
ExecNext ==
    \/ \E n \in Nodes : NodeRequest(n)
    \/ \E n \in Nodes : NodeComplete(n)
    \/ FlushGet
    \/ FinishGet
    \/ ClearRequest
    \/ ClearData
    \/ LoadLoop
    \/ \E k \in 1..src_dp_size : LoadPoll(k)
    \/ LoadProcess
    \/ LoadAddData
    \/ LoadPutBatch
    \/ LoadSleep
    \/ ExecuteStepReturn
    \/ ExecuteStepRaise
    \/ \E w \in Workers : ExecWorkerServe(w)

\* ---------------------------------------------------------- specification
\* The routing table of the run: handler h is served by worker ((h-1) mod n)+1.
Routings == {[h \in Handlers |-> ((h - 1) % NWorkers) + 1]}

\* The handler lists of a request: distinct handlers in ascending order.
HandlerLists ==
    {l \in SeqsUpTo(Handlers, MaxPayloads) : \A i \in 1..(Len(l) - 1) : l[i] < l[i + 1]}

StreamInitWith(routings) ==
    /\ handler_routing \in routings
    /\ send_sockets = [w \in Workers |-> <<>>]
    /\ recv_socket = <<>>
    /\ response_buffer = <<>>
    /\ next_id = 1
    /\ pc = "idle"
    /\ req = <<>>
    /\ req_args = [handlers |-> <<>>, datas |-> <<>>]
    /\ req_no_syn = TRUE
    /\ idx = 1
    /\ pattern = AnyPattern
    /\ ret = NoReturn
    /\ n_built = 0
    /\ worker_pos = [w \in Workers |-> 0]
    /\ received = {}
    /\ delivered = {}
    /\ syn_observed = {}

StreamInit == StreamInitWith(Routings)

\* The payload of a post() that the caller made before: its reply is still to
\* come when request() is called.
EarlierPayload(h) == Payload(h, "rpc", NoData, TRUE, 1)

\* The client with that payload posted to some handler.
StreamInitPosted ==
    /\ handler_routing \in Routings
    /\ \E h \in Handlers :
          send_sockets = PostOn([w \in Workers |-> <<>>], handler_routing, EarlierPayload(h))
    /\ recv_socket = <<>>
    /\ response_buffer = <<>>
    /\ next_id = 4
    /\ pc = "idle"
    /\ req = <<>>
    /\ req_args = [handlers |-> <<>>, datas |-> <<>>]
    /\ req_no_syn = TRUE
    /\ idx = 1
    /\ pattern = AnyPattern
    /\ ret = NoReturn
    /\ n_built = 0
    /\ worker_pos = [w \in Workers |-> 0]
    /\ received = {}
    /\ delivered = {}
    /\ syn_observed = {}

Init == StreamInit /\ RdvDone /\ ExecIdle

StreamNext ==
    \/ \E hs \in HandlerLists, ns \in BOOLEAN :
          \E ds \in RequestDatas(hs) : RequestBegin(hs, ds, ns)
    \/ RequestPost
    \/ RequestSyn
    \/ RequestAck
    \/ \E pat \in Patterns : PollNonblock(pat)
    \/ \E pat \in Patterns : PollBlockBegin(pat)
    \/ PollBlockAttempt
    \/ \E h \in PostHandlers : Post(h)
    \/ \E ids \in GatherLists : GatherBegin(ids)
    \/ GatherAttempt
    \/ \E w \in Workers : WorkerServe(w)

Next == StreamNext /\ UNCHANGED <<rdv_vars, exec_vars, load_vars>>

Spec == Init /\ [][Next]_vars

InitRendezvous == RdvInit /\ StreamInit /\ ExecIdle

NextRendezvous == RdvNext /\ UNCHANGED <<stream_vars, exec_vars, load_vars>>

SpecRendezvous == InitRendezvous /\ [][NextRendezvous]_vars

\* The constructors as processes of their own, each of which goes on when it
\* can: the master's constructor is straight-line code and a loop around a
\* sleep, a worker's is straight-line code around name_resolve.wait.
RdvOnly == UNCHANGED <<stream_vars, exec_vars, load_vars>>

\* A launch from the command line: main_start, and the endpoints of the run it
\* has submitted while it waits for the jobs.
InitLauncher == StreamInit /\ ExecIdle /\ LauncherInit

NextLauncher ==
    \/ MainStart
    \/ ResetNameResolve
    \/ SubmitJobs
    \/ WaitReturns
    \/ \E e \in WaitExceptions : WaitRaises(e)
    \/ StopAll
    \/ Recover
    \/ main_pc = "wait" /\ RdvNext /\ RdvOnly

SpecLauncher == InitLauncher /\ [][NextLauncher]_vars

SpecRendezvousFair ==
    /\ SpecRendezvous
    /\ WF_vars(ClientAdd /\ RdvOnly)
    /\ WF_vars(ClientBarrierPoll /\ RdvOnly)
    /\ \A w \in Workers :
          /\ WF_vars(ServerWait(w) /\ RdvOnly)
          /\ WF_vars(ServerAccept(w) /\ RdvOnly)
          /\ WF_vars(ServerAddSubentry(w) /\ RdvOnly)

InitExec ==
    /\ StreamInitWith(ExecRoutings) /\ RdvDone
    /\ ExecInit(GraphConfigs \cup LoaderConfigs \cup MisconfiguredConfigs)

SpecExec == InitExec /\ [][ExecNext]_vars

\* load_data and the workers that answer it, on a graph of one node: the task
\* that calls call_async, with its waiters.  The other tasks of execute_step
\* neither poll nor change what the waiters read, and are left aside.  The
\* event loop runs every task that is ready: a waiter of gather_async that
\* sleeps 0.01 s after NoMessage becomes ready again and gets its next attempt.
\* Only attempts that change the state are asked for.
InitLoader == StreamInitWith(ExecRoutings) /\ RdvDone /\ ExecInit(LoaderConfigs)

NextLoader ==
    \/ LoadLoop
    \/ \E k \in 1..src_dp_size : LoadPoll(k)
    \/ LoadProcess
    \/ LoadAddData
    \/ LoadPutBatch
    \/ LoadSleep
    \/ \E w \in Workers : ExecWorkerServe(w)

\* The loader with a consumer that drains the buffer while it loads, for
\* buffers of a max_size from what the node requires up to BufferMaxSize: a
\* consumer takes the oldest sample out.
BufferConfigs ==
    {[Config(<<{}>>, <<MaxSeqs>>, FALSE, pre) EXCEPT !.max_size = m] :
        pre \in 0..MaxSeqs, m \in MaxSeqs..BufferMaxSize}

BufferDrain ==
    /\ buffer # <<>>
    /\ buffer' = Tail(buffer)
    /\ UNCHANGED <<stream_vars, rdv_vars, load_vars, config_vars, node_state,
                   topo_level_count, train_count, flush_level, flush_got, flush_log,
                   finish_got, finish_pc, lock, ids_to_clear,
                   used_hash_vals_this_epoch, tracker>>

InitBuffer == StreamInitWith(ExecRoutings) /\ RdvDone /\ ExecInit(BufferConfigs)

NextBuffer ==
    \/ LoadLoop
    \/ \E k \in 1..src_dp_size : LoadPoll(k)
    \/ LoadProcess
    \/ LoadAddData
    \/ LoadPutBatch
    \/ LoadSleep
    \/ BufferDrain
    \/ \E w \in Workers : ExecWorkerServe(w)

SpecBuffer == InitBuffer /\ [][NextBuffer]_vars

\* The storage tracker under the calls of several coordinators, in any order:
\* each call runs under the tracker's lock, so the calls come one at a time.
\* It starts without records, or with those of one sample that a previous
\* step left in the buffer.
TrackerConfigs == {Config(<<{}>>, <<1>>, FALSE, pre) : pre \in {0, 1}}

TrackerIds == 1..(MaxIds + 1)

\* The id lists of a call: one id, or two different ids in either order.
TrackerIdLists ==
    {<<i>> : i \in TrackerIds} \cup
    {l \in TrackerIds \X TrackerIds : l[1] # l[2]}

TrackerUnchanged ==
    UNCHANGED <<stream_vars, rdv_vars, load_vars, G, n_seqs, shuffle_dataset,
                node_workers, buffer_max_size, step_pc, node_state,
                topo_level_count, train_count, flush_level, flush_got, flush_log,
                finish_got, finish_pc, lock, ids_to_clear, used_hash_vals_this_epoch,
                buffer>>

\* await storage_tracker.add_data(gpu_id, ids, k, is_owner=True)
TrackerAdd(w, ids, k) ==
    /\ tracker' = add_data(tracker, w, ids, k)
    /\ redistrib_plan' = redistrib_plan
    /\ TrackerUnchanged

\* await storage_tracker.clear_data(ids)
TrackerClear(ids) ==
    /\ tracker' = clear_data(tracker, ids)
    /\ redistrib_plan' = redistrib_plan
    /\ TrackerUnchanged

InitTracker == StreamInitWith(ExecRoutings) /\ RdvDone /\ ExecInit(TrackerConfigs)

NextTracker ==
    \/ \E w \in Workers, ids \in TrackerIdLists, k \in Range(DataKeys) :
          TrackerAdd(w, ids, k)
    \/ \E ids \in TrackerIdLists : TrackerClear(Range(ids))

SpecTracker == InitTracker /\ [][NextTracker]_vars

\* The planner over the tracker: coordinators record and clear ownership and
\* ask for plans, one call at a time.  redistrib_plan holds the plan last
\* derived, until the tracker is next changed.
PlannerAdd(w, id, k) ==
    /\ tracker' = add_data(tracker, w, <<id>>, k)
    /\ redistrib_plan' = NoPlan
    /\ TrackerUnchanged

PlannerClear(ids) ==
    /\ tracker' = clear_data(tracker, ids)
    /\ redistrib_plan' = NoPlan
    /\ TrackerUnchanged

Plan(targets, key, ids) ==
    /\ \E transfers \in plan(tracker, targets, key, ids) :
          redistrib_plan' =
             [targets |-> targets, key |-> key, ids |-> ids, transfers |-> transfers]
    /\ tracker' = tracker
    /\ TrackerUnchanged

InitPlanner == StreamInitWith(ExecRoutings) /\ RdvDone /\ ExecIdle

NextPlanner ==
    \/ \E w \in Workers, id \in SampleIds, k \in Range(DataKeys) : PlannerAdd(w, id, k)
    \/ \E ids \in SUBSET SampleIds \ {{}} : PlannerClear(ids)
    \/ \E targets \in SUBSET Workers \ {{}}, k \in Range(DataKeys),
          ids \in SUBSET SampleIds \ {{}} : Plan(targets, k, ids)

SpecPlanner == InitPlanner /\ [][NextPlanner]_vars

\* request(no_syn=False) with the workers, while the reply to an earlier post
\* is outstanding.  request() is straight-line code around poll(block=True),
\* which retries until its SYN is there, so each of its phases goes on when it
\* can; a worker process answers every payload that reaches its socket.
InitHandshake == StreamInitPosted /\ RdvDone /\ ExecIdle

HandshakeNext ==
    \/ \E hs \in HandlerLists : RequestBegin(hs, <<>>, FALSE)
    \/ RequestPost
    \/ RequestSyn
    \/ RequestAck
    \/ \E w \in Workers : WorkerServe(w)

StreamOnly == UNCHANGED <<rdv_vars, exec_vars, load_vars>>

NextHandshake == HandshakeNext /\ StreamOnly

SpecHandshake == InitHandshake /\ [][NextHandshake]_vars

SpecHandshakeFair ==
    /\ SpecHandshake
    /\ WF_vars(RequestPost /\ StreamOnly)
    /\ WF_vars(RequestSyn /\ StreamOnly)
    /\ WF_vars(RequestAck /\ StreamOnly)
    /\ \A w \in Workers : WF_vars(WorkerServe(w) /\ StreamOnly)

\* request() called either way, with handlers (the payloads are built from the
\* no_syn argument) or with payloads the caller has built, and the workers.
PayloadsNext ==
    \/ \E hs \in HandlerLists, ns \in BOOLEAN : RequestBegin(hs, <<>>, ns)
    \/ \E hs \in HandlerLists, ns \in BOOLEAN :
          \E flags \in [DOMAIN hs -> BOOLEAN] : RequestBeginPayloads(hs, flags, ns)
    \/ RequestPost
    \/ RequestSyn
    \/ RequestAck
    \/ \E w \in Workers : WorkerServe(w)

NextPayloads == PayloadsNext /\ StreamOnly

SpecPayloads == Init /\ [][NextPayloads]_vars

\* load_data and the workers under every routing table of the source handlers.
InitRouted == StreamInitWith(DataRoutings) /\ RdvDone /\ ExecInit(LoaderConfigs)

SpecRouted == InitRouted /\ [][NextLoader]_vars

\* The loading scenario: two source ranks, each with ScenarioBatch samples of
\* its own, which it sends at the first "fetch" (None afterwards); one graph
\* node that requires ScenarioNSeqs samples; a buffer that is empty and has room
\* for all the samples.  The loading task runs with the workers.
ScenarioBatch == 3

ScenarioNSeqs == 4

ScenarioSamples(w) == [i \in 1..ScenarioBatch |-> ScenarioBatch * (w - 1) + i]

ScenarioConfigs ==
    {[Config(<<{}>>, <<ScenarioNSeqs>>, shuffle, 0)
        EXCEPT !.max_size = src_dp_size * ScenarioBatch] : shuffle \in BOOLEAN}

\* The first "fetch" on the worker's socket is at position pos.
FirstFetch(sock, pos) == \A i \in 1..(pos - 1) : sock[i].handle_name # "fetch"

ScenarioWorkerServe(w) ==
    /\ NextFetch(send_sockets[w], worker_pos[w]) # 0
    /\ worker_pos' = [worker_pos EXCEPT ![w] = NextFetch(send_sockets[w], @)]
    /\ LET pos == NextFetch(send_sockets[w], worker_pos[w]) IN
       recv_socket' = Append(recv_socket,
           FetchReply(send_sockets[w][pos].request_id, w,
                      IF FirstFetch(send_sockets[w], pos)
                      THEN Batch(ScenarioSamples(w)) ELSE NoneResponse))
    /\ UNCHANGED <<handler_routing, send_sockets, response_buffer, next_id,
                   caller_vars, rdv_vars, exec_vars, load_vars>>

InitScenario == StreamInitWith(ExecRoutings) /\ RdvDone /\ ExecInit(ScenarioConfigs)

NextScenario ==
    \/ LoadLoop
    \/ \E k \in 1..src_dp_size : LoadPoll(k)
    \/ LoadProcess
    \/ LoadAddData
    \/ LoadPutBatch
    \/ \E w \in Workers : ScenarioWorkerServe(w)

SpecScenario == InitScenario /\ [][NextScenario]_vars

SpecLoader == InitLoader /\ [][NextLoader]_vars

SpecLoaderFair == SpecLoader /\ \A k \in 1..src_dp_size : WF_vars(LoadPoll(k))

\* execute_step of every graph with the buffer filled, and of the graph of one
\* node with the buffer empty or filled; the event loop runs every task that
\* can go on, and the workers answer what they are sent.
StepConfigs ==
    GraphConfigs \cup {Config(<<{}>>, <<MaxSeqs>>, FALSE, pre) : pre \in {0, MaxSeqs}}

InitStep == StreamInitWith(ExecRoutings) /\ RdvDone /\ ExecInit(StepConfigs)

SpecStep == InitStep /\ [][ExecNext]_vars

SpecStepFair ==
    /\ SpecStep
    /\ \A n \in 1..MaxNodes :
          /\ WF_vars(n \in Nodes /\ NodeRequest(n))
          /\ WF_vars(n \in Nodes /\ NodeComplete(n))
    /\ WF_vars(FlushGet) /\ WF_vars(FinishGet)
    /\ WF_vars(ClearRequest) /\ WF_vars(ClearData)
    /\ WF_vars(LoadLoop) /\ WF_vars(LoadProcess) /\ WF_vars(LoadAddData)
    /\ WF_vars(LoadPutBatch) /\ WF_vars(LoadSleep)
    /\ \A k \in 1..src_dp_size : WF_vars(LoadPoll(k))
    /\ \A w \in Workers : WF_vars(ExecWorkerServe(w))
    /\ WF_vars(ExecuteStepReturn) /\ WF_vars(ExecuteStepRaise)

\* =================================================================== claims
Buffered == Range(response_buffer)

DeliveredPayloads == {d.payload : d \in delivered}

\* The request() call that runs, or ran last, has posted r on r's socket.
RequestPosted(r) ==
    [payload |-> r, socket |-> handler_routing[r.handler]] \in Posted

\* An "ack" payload keyed by r.ack_reply_id has been posted to r's handler.
AckPosted(r) ==
    \E x \in Posted : /\ x.payload.handle_name = "ack"
                      /\ x.payload.request_id = r.ack_reply_id
                      /\ x.payload.handler = r.handler
                      /\ x.socket = handler_routing[r.handler]

\* The SYN of r came in on the reply stream and a handshake poll returned it.
SynObserved(r) ==
    /\ r.syn_reply_id \in syn_observed
    /\ \E p \in received : p.request_id = r.syn_reply_id

\* C1: request with no_syn=False runs its three phases in order: every request
\* is posted before a SYN is awaited or observed, no ACK is posted before the
\* SYN of every request has been observed, and the call has not returned
\* before an ACK was posted to every handler.
C1_HandshakeOrder ==
    /\ (pc \in {"req_syn", "req_ack"} \/ syn_observed # {})
          => \A k \in DOMAIN req : RequestPosted(req[k])
    /\ \A k \in DOMAIN req :
          AckPosted(req[k]) => (~req_no_syn /\ \A j \in DOMAIN req : SynObserved(req[j]))
    /\ (pc \in {"idle", "poll_block"} /\ ~req_no_syn)
          => \A k \in DOMAIN req : AckPosted(req[k])

\* A handshake of two requests has returned.
C1_Witness ==
    /\ pc = "idle" /\ ret.kind = "ids" /\ ~req_no_syn /\ Len(req) = 2
    /\ \A k \in DOMAIN req : AckPosted(req[k]) /\ SynObserved(req[k])

\* C2: no message is lost: every payload pulled from the inbound socket is
\* either still in the response buffer or has been handed to exactly the
\* poll that asked for it; the buffer holds only pulled payloads, one per id.
C2_NoMessageLost ==
    /\ \A p \in received : (p \in Buffered) # (p \in DeliveredPayloads)
    /\ Buffered \subseteq received
    /\ DeliveredPayloads \subseteq received
    /\ \A i, j \in DOMAIN response_buffer :
          response_buffer[i].request_id = response_buffer[j].request_id => i = j

\* A payload that an earlier poll pulled and did not match was returned by a
\* later poll, while another unmatched payload still waits in the buffer.
C2_Witness ==
    /\ \E d \in delivered : d.buffered
    /\ Buffered # {}
    /\ ret.kind = "payload"

\* C3: the payload a poll returns carries a request id of the poll's pattern;
\* for the pattern of one id returned by post, it carries that id.  This holds
\* for the polls of the handshake too.
C3_PollReturnsMatch ==
    /\ ret.kind = "payload" =>
          (pattern.any \/ ret.payload[1].request_id \in Range(pattern.ids))
    /\ syn_observed \subseteq {req[k].syn_reply_id : k \in DOMAIN req}

\* A poll for one id that post returned has returned the reply with that id
\* while the reply to another request was there to be confused with it.
C3_Witness ==
    /\ ret.kind = "payload"
    /\ ~pattern.any /\ Len(pattern.ids) = 1
    /\ pattern.ids[1] \in KnownIds
    /\ ret.payload[1].request_id = pattern.ids[1]
    /\ Buffered # {}

\* C9: the constructor of the request client does not end before the barrier
\* holds as many sub-entries as there are subscribers, and it never fails:
\* while fewer are there it keeps polling, however often it has polled.
C9_BarrierBlocks ==
    /\ ClientReady => Cardinality(barrier_subtree) = NWorkers
    /\ Cardinality(barrier_subtree) < NWorkers => ~ClientReady
    /\ client_step \in 1..(Len(ClientProgram) + 1)

\* The master has polled the barrier again and again with one sub-entry
\* missing, and still waits.
C9_Witness ==
    /\ ~ClientReady
    /\ client_polls = MaxBarrierPolls
    /\ Cardinality(barrier_subtree) = NWorkers - 1

\* C10: a worker waits no longer than the timeout for an address of the
\* master; a worker whose wait timed out has used up the timeout, has not
\* connected its sockets and has added no barrier sub-entry.
C10_TimeoutBeforeConnect ==
    \A w \in Workers :
       /\ server_elapsed[w] <= WaitTimeout
       /\ ServerTimedOut(w) =>
             /\ server_elapsed[w] = WaitTimeout
             /\ w \notin server_accepted
             /\ w \notin barrier_subtree

\* One worker timed out waiting for master_recv, though its master_send
\* address had been published, while another worker finished its constructor.
C10_Witness ==
    \E w, v \in Workers :
       /\ ServerTimedOut(w)
       /\ MasterSendName(w) \in name_entries
       /\ ServerReady(v)

\* ------------------------------------------------------------ flush_calls
\* Level signals put so far: one per completed node.
SignalsEmitted == Cardinality({n \in Nodes : node_state[n] = "done"})

RECURSIVE SumWidths(_, _)
SumWidths(widths, k) == IF k = 0 THEN 0 ELSE widths[k] + SumWidths(widths, k - 1)

\* C4: the flush task takes the generations in order; the flush of a
\* generation of width w is issued after exactly w signals were consumed for
\* it, so the signals consumed are those of the generations flushed plus the
\* ones got for the running generation; every worker has been sent exactly one
\* "flush" per generation flushed, addressed to it.
C4_FlushPerGeneration ==
    /\ flush_level \in 1..(Len(topo_widths(G)) + 1)
    /\ Len(flush_log) = flush_level - 1
    /\ \A i \in DOMAIN flush_log :
          /\ flush_log[i].level = i
          /\ Len(flush_log[i].signals) = topo_widths(G)[i]
    /\ ~FlushDone => Len(flush_got) < topo_widths(G)[flush_level]
    /\ SignalsEmitted - Len(topo_level_count)
          = SumWidths(topo_widths(G), flush_level - 1) + Len(flush_got)
    /\ \A w \in Workers :
          /\ Len(PostedOf("flush", w)) = flush_level - 1
          /\ \A k \in DOMAIN PostedOf("flush", w) : PostedOf("flush", w)[k].handler = w

\* Widths [2,1]: both flushes are out, the first after two signals, the
\* second after one more.
C4_Witness ==
    /\ topo_widths(G) = <<2, 1>>
    /\ FlushDone
    /\ Len(flush_log[1].signals) = 2
    /\ Len(flush_log[2].signals) = 1

\* C5: the signals counted toward the flush of a generation come one from
\* each node of that generation, none from a node of a later generation.
C5_SignalsOfOwnGeneration ==
    /\ \A i \in DOMAIN flush_log :
          Range(flush_log[i].signals) = GenerationNodes(G, i)
    /\ \A k \in DOMAIN flush_got : Generation(G, flush_got[k]) = flush_level

\* -------------------------------------------------------- finish_traverse
ClearPosted(w) == PostedOf("clear_data_cache", w)

C6_State ==
    /\ \A w \in Workers :
          Len(ClearPosted(w)) = IF finish_pc \in {"clear_data", "done"} THEN 1 ELSE 0
    /\ finish_pc \in {"lock", "clear_data", "done"} =>
          /\ Len(finish_got) = Cardinality(get_leaf_tasks(G))
          /\ Range(finish_got) = get_leaf_tasks(G)
          /\ \A n \in get_leaf_tasks(G) : node_state[n] = "done"
    /\ finish_pc = "clear_data" =>
          \A w \in Workers : ClearPosted(w)[1].data.ids = ids_to_clear
    /\ finish_pc = "done" =>
          /\ ids_to_clear = {}
          /\ \A w \in Workers : \A r \in tracker : r.id \notin ClearPosted(w)[1].data.ids

C6_Step ==
    /\ (finish_pc = "lock" /\ finish_pc' = "clear_data") =>
          \A w \in Workers :
             /\ send_sockets'[w] # <<>>
             /\ send_sockets'[w][Len(send_sockets'[w])].handle_name = "clear_data_cache"
             /\ send_sockets'[w][Len(send_sockets'[w])].data.ids = ids_to_clear
    /\ (finish_pc = "clear_data" /\ finish_pc' = "done") =>
          tracker' = {r \in tracker : r.id \notin ClearPosted(1)[1].data.ids}

\* C6: "clear_data_cache" is broadcast only after a completion signal of every
\* terminal node has been got; it goes once to every worker and carries the
\* ids of ids_to_clear at that moment; afterwards the tracker has lost the
\* records of exactly those ids.
C6_ClearAfterLeaves == []C6_State /\ [][C6_Step]_vars

\* Two terminal nodes have signalled, the cache clear went out with samples to
\* clear, and the tracker still holds the records of other samples.
C6_Witness ==
    /\ finish_pc = "done"
    /\ Cardinality(get_leaf_tasks(G)) = 2
    /\ \A w \in Workers : ClearPosted(w)[1].data.ids # {}
    /\ tracker # {}

\* ---------------------------------------------------------------- load_data
Injective(l) == \A i, j \in DOMAIN l : l[i] = l[j] => i = j

\* C7: a sample id that was received before in the loading run, in this round
\* or an earlier one, raises the error: without the error every id checked is
\* new, and no id is twice among the samples the run put into the buffer.
\* When the error is raised, the last id checked is an old one, and nothing of
\* the round is in the buffer or in the tracker.
C7_DuplicateRaises ==
    /\ load_pc # "error" =>
          /\ Injective(received_log)
          /\ Range(received_log) = received_ids
    /\ \A i, j \in DOMAIN buffer :
          (buffer[i].round > 0 /\ buffer[j].round > 0 /\ buffer[i].id = buffer[j].id)
             => i = j
    /\ load_pc = "error" =>
          /\ Len(received_log) >= 2
          /\ \E i \in 1..(Len(received_log) - 1) :
                received_log[i] = received_log[Len(received_log)]
          /\ Injective(SubSeq(received_log, 1, Len(received_log) - 1))
          /\ load_rounds \notin rounds_recorded
          /\ \A i \in DOMAIN buffer : buffer[i].round # load_rounds

\* The second round failed on an id of the first round, after another sample
\* of the second round had passed the check; the buffer holds the first
\* round's sample only.
C7_Witness ==
    /\ load_pc = "error"
    /\ load_rounds = 2
    /\ Len(received_log) = 3
    /\ received_log[3] = received_log[1]
    /\ \E i \in DOMAIN buffer : buffer[i].round = 1 /\ buffer[i].id = received_log[1]

FetchPosted(w) == PostedOf("fetch", w)

C8_State ==
    /\ \A k \in 1..src_dp_size :
          Len(FetchPosted(route_to(handler_routing, DataHandler(k)))) = load_rounds
    /\ (load_pc = "done" /\ load_rounds = 0) =>
          \A w \in Workers : FetchPosted(w) = <<>>

C8_Step ==
    (load_pc = "loop" /\ load_pc' # "loop") =>
       /\ load_pc' \in {"gather", "done"}
       /\ (load_pc' = "gather") <=> (Len(buffer) < MaxNSeqs)
       /\ (load_pc' = "done") <=> (Len(buffer) >= MaxNSeqs)
       /\ load_pc' = "gather" =>
             /\ load_rounds' = load_rounds + 1
             /\ \A k \in 1..src_dp_size :
                   LET w == route_to(handler_routing, DataHandler(k)) IN
                   Len(send_sockets'[w]) = Len(send_sockets[w]) + 1
       /\ load_pc' = "done" => (send_sockets' = send_sockets /\ load_rounds' = load_rounds)

\* C8: at the loop condition a fetch round is issued iff the buffer holds
\* fewer samples than the largest n_seqs, and the loop is left otherwise; the
\* fetches sent are those of the rounds issued, none if the first evaluation
\* finds the buffer filled.
C8_LoopCondition == []C8_State /\ [][C8_Step]_vars

\* The loop started below the largest n_seqs, ran one round that brought the
\* missing sample, and was left as the size reached it.
C8_Witness ==
    /\ load_pc = "done"
    /\ load_rounds = 1
    /\ Len(buffer) = MaxNSeqs
    /\ buffer[1].round = 0
    /\ buffer[Len(buffer)].round = 1

\* ------------------------------------------------------------------ gather
\* The reply a worker sent to a request id, among those the client has pulled.
RepliesTo(id) == {p \in received : p.request_id = id}

\* C11: gather returns one datum per request id, and the k-th datum is the data
\* of the reply to the k-th request id, in whatever order the replies came;
\* while it gathers, the k-th response it holds is the reply to the k-th id, and
\* a pulled reply to an id still to be polled is in the buffer (unless a poll
\* before the gather was given it).
C11_GatherInRequestOrder ==
    /\ ret.kind = "data" =>
          /\ Len(ret.data) = Len(ret.ids)
          /\ \A k \in DOMAIN ret.ids :
                \E p \in RepliesTo(ret.ids[k]) : ret.data[k] = p.data
    /\ ret.kind = "gathering" =>
          /\ \A k \in DOMAIN ret.payload : ret.payload[k].request_id = ret.ids[k]
          /\ \A k \in (Len(ret.payload) + 1)..Len(ret.ids) :
                \A p \in RepliesTo(ret.ids[k]) :
                    p \in Buffered \/ p \in DeliveredPayloads

\* gather has returned two different data, and the reply to the second id had
\* come before the reply to the first: it was taken from the buffer.
C11_Witness ==
    /\ ret.kind = "data"
    /\ Len(ret.data) = 2
    /\ ret.data[1] # ret.data[2]
    /\ \E d \in delivered : d.buffered /\ d.payload.request_id = ret.ids[2]
    /\ \A k \in DOMAIN ret.ids : RepliesTo(ret.ids[k]) # {}

\* ------------------------------------------------------- non-blocking poll
\* A step of poll(pattern, block=False): the caller is idle before and after,
\* and has been given a payload or NoMessage.  (A poll that changes nothing, on
\* an empty socket with the pattern of the poll before, is left out.)
NonblockPollStep ==
    /\ pc = "idle" /\ pc' = "idle"
    /\ worker_pos' = worker_pos
    /\ ret'.kind \in {"NoMessage", "payload"}
    /\ vars' # vars

Wanted(p) == PatternMatch(pattern', p.request_id)

\* C12: a non-blocking poll raises NoMessage exactly when no buffered payload
\* matches and the socket is empty or its first message does not match; it
\* takes no more than that first message, and when it raises, that message is
\* in the buffer, after what was there.
C12_Step ==
    NonblockPollStep =>
       /\ ret'.kind = "NoMessage" <=>
             /\ \A p \in Buffered : ~Wanted(p)
             /\ recv_socket = <<>> \/ ~Wanted(Head(recv_socket))
       /\ recv_socket' = recv_socket
            \/ (recv_socket # <<>> /\ recv_socket' = Tail(recv_socket))
       /\ ret'.kind = "NoMessage" =>
             IF recv_socket = <<>>
             THEN recv_socket' = recv_socket /\ response_buffer' = response_buffer
             ELSE /\ recv_socket' = Tail(recv_socket)
                  /\ response_buffer' = Append(response_buffer, Head(recv_socket))

C12_NonblockingPollRaises == [][C12_Step]_vars

\* NoMessage was raised by a poll for known ids, and the message that poll took
\* from the socket, the reply to another request, is the last of the buffer.
C12_Witness ==
    /\ pc = "idle"
    /\ ret.kind = "NoMessage"
    /\ ~pattern.any /\ pattern.ids # <<>>
    /\ response_buffer # <<>>
    /\ response_buffer[Len(response_buffer)].handle_name = "reply"
    /\ ~PatternMatch(pattern, response_buffer[Len(response_buffer)].request_id)

\* ------------------------------------------------------ poll, buffer first
\* A step in which poll(pattern) has given the caller a payload, non-blocking
\* or blocking.
PollGaveStep ==
    \/ NonblockPollStep /\ ret'.kind = "payload"
    \/ pc = "poll_block" /\ pc' = "idle"

\* An attempt of a blocking poll (a step of the caller, not of a worker).
PollBlockStep == pc = "poll_block" /\ worker_pos' = worker_pos /\ vars' # vars

\* C13: when a buffered payload matches the pattern, the poll returns at that
\* attempt, the socket is left as it was, the caller is given one payload, a
\* buffered one that matches, and the buffer loses that payload only: the other
\* buffered payloads that match are still in it.
C13_Step ==
    /\ (PollGaveStep /\ \E p \in Buffered : Wanted(p)) =>
          /\ recv_socket' = recv_socket
          /\ ret'.kind = "payload" /\ Len(ret'.payload) = 1
          /\ ret'.payload[1] \in Buffered /\ Wanted(ret'.payload[1])
          /\ Range(response_buffer') = Buffered \ {ret'.payload[1]}
          /\ Len(response_buffer') = Len(response_buffer) - 1
    /\ PollGaveStep => Cardinality(delivered' \ delivered) = 1
    /\ (PollBlockStep /\ \E p \in Buffered : PatternMatch(pattern, p.request_id)) =>
          pc' = "idle"

C13_BufferedMatchFirst == [][C13_Step]_vars

\* A poll has returned a payload it found in the buffer, and another payload
\* that matches its pattern is still buffered.
C13_Witness ==
    /\ pc = "idle"
    /\ ret.kind = "payload"
    /\ [payload |-> ret.payload[1], buffered |-> TRUE] \in delivered
    /\ PatternMatch(pattern, ret.payload[1].request_id)
    /\ \E p \in Buffered : PatternMatch(pattern, p.request_id)

\* -------------------------------------------------------------------- post
\* The payload a step has put on socket w, if it put one there.
Sent(w) == send_sockets'[w][Len(send_sockets'[w])]

\* A step of post(payload) called by itself: the caller has built one payload
\* and is idle before and after.
PostStep == pc = "idle" /\ pc' = "idle" /\ n_built' = n_built + 1

\* C14: a step that sends (post by itself, or a post of request()) puts one
\* payload at the end of one socket, the socket of the payload's handler in the
\* routing table, and changes no other socket nor the response buffer; post
\* returns the request id of the payload it sent; post to a handler that the
\* table does not have raises and sends nothing.
C14_Step ==
    /\ send_sockets' # send_sockets =>
          /\ \E w \in Workers :
                /\ send_sockets'[w] # <<>>
                /\ send_sockets'[w] = Append(send_sockets[w], Sent(w))
                /\ Sent(w).handler \in DOMAIN handler_routing
                /\ handler_routing[Sent(w).handler] = w
                /\ \A v \in Workers \ {w} : send_sockets'[v] = send_sockets[v]
                /\ PostStep => ret' = ReturnId(Sent(w).request_id)
          /\ response_buffer' = response_buffer
    /\ PostStep =>
          /\ ret'.kind \in {"id", "KeyError"}
          /\ ret'.kind = "id" => send_sockets' # send_sockets
          /\ ret'.kind = "KeyError" =>
                /\ send_sockets' = send_sockets
                /\ response_buffer' = response_buffer /\ recv_socket' = recv_socket

C14_PostFrame == [][C14_Step]_vars

\* No request() was called: post has sent a payload, which is on the socket of
\* its handler with the other socket empty, and then post to a handler that the
\* table does not have has raised.
C14_Witness ==
    /\ ret.kind = "KeyError"
    /\ req = <<>>
    /\ \E w \in Workers :
          /\ Len(send_sockets[w]) = 1
          /\ handler_routing[send_sockets[w][1].handler] = w
          /\ \A v \in Workers \ {w} : send_sockets[v] = <<>>

\* ------------------------------------------------------- request, no_syn
InRequest == pc \in {"req_post", "req_syn", "req_ack"}

\* C15: a request with no_syn=True only posts its requests and returns their
\* ids with the last post: while it runs nothing is taken from the socket, the
\* response buffer is unchanged and what is sent is the next request, never an
\* "ack"; no "ack" for one of its requests is ever posted.
C15_State ==
    req_no_syn =>
       /\ pc \notin {"req_syn", "req_ack"}
       /\ \A k \in DOMAIN req : ~AckPosted(req[k])

C15_Step ==
    (InRequest /\ req_no_syn) =>
       /\ response_buffer' = response_buffer
       /\ received' = received /\ delivered' = delivered
       /\ recv_socket' = recv_socket
            \/ /\ recv_socket' # <<>>
               /\ recv_socket' = Append(recv_socket, recv_socket'[Len(recv_socket')])
       /\ send_sockets' # send_sockets =>
             /\ send_sockets' = PostOn(send_sockets, handler_routing, req[idx])
             /\ IF idx = Len(req)
                THEN pc' = "idle" /\ ret' = ReturnIds(RequestIdsOf(req))
                ELSE pc' = "req_post" /\ idx' = idx + 1
       /\ send_sockets' = send_sockets => pc' = pc

C15_NoSynReturnsAfterPosts == []C15_State /\ [][C15_Step]_vars

\* A request of two with no_syn=True has returned; a worker has already
\* answered one of them and the answer is still on the socket.
C15_Witness ==
    /\ pc = "idle" /\ ret.kind = "ids" /\ req_no_syn /\ Len(req) = 2
    /\ ret.ids = RequestIdsOf(req)
    /\ \A k \in DOMAIN req : RequestPosted(req[k])
    /\ \E i \in DOMAIN recv_socket : recv_socket[i].request_id \in Range(ret.ids)
    /\ received = {}

\* ------------------------------------------------------- request, payloads
\* The pairs of zip(handlers, datas) of the request() call that runs or ran
\* last; datas=None pairs every handler with None.
Pairs ==
    LET hs == req_args.handlers
        ds == IF req_args.datas = <<>> THEN NoDatas(hs) ELSE req_args.datas
    IN [k \in 1..(IF Len(hs) < Len(ds) THEN Len(hs) ELSE Len(ds)) |->
           [handler |-> hs[k], data |-> ds[k]]]

IdsOf(p) == {p.request_id, p.syn_reply_id, p.ack_reply_id}

\* The ids in use: the ids of the payloads on the sockets to the workers, of the
\* replies on the socket back and in the buffer, and of what polls have given.
IdsInUse ==
    UNION {IdsOf(x.payload) : x \in Posted}
      \cup {p.request_id : p \in Range(recv_socket) \cup Buffered \cup received}

\* How many times payload p is on the sockets to the workers.
TimesPosted(p) == Cardinality({x \in Posted : x.payload = p})

\* C16: request() builds one payload per pair of zip(handlers, datas), the k-th
\* for the k-th handler with the k-th datum; the three ids of each are distinct
\* from one another and from the ids of the other payloads; when the call has
\* returned each payload is on a socket once, and the ids returned are the
\* request ids in the order of the handlers ...
C16_State ==
    /\ Len(req) = Len(Pairs)
    /\ \A k \in DOMAIN req :
          /\ req[k].handler = Pairs[k].handler /\ req[k].data = Pairs[k].data
          /\ Cardinality(IdsOf(req[k])) = 3
          /\ \A j \in DOMAIN req : j # k => IdsOf(req[j]) \cap IdsOf(req[k]) = {}
    /\ (pc = "idle" /\ ret.kind = "ids") =>
          /\ \A k \in DOMAIN req : TimesPosted(req[k]) = 1
          /\ Len(ret.ids) = Len(req)
          /\ \A k \in DOMAIN req : ret.ids[k] = req[k].request_id

\* ... and at the step that builds them, none of their ids is in use.
C16_Step ==
    (pc = "idle" /\ pc' = "req_post") =>
       \A k \in DOMAIN req' : IdsOf(req'[k]) \cap IdsInUse = {}

C16_OnePayloadPerPair == []C16_State /\ [][C16_Step]_vars

\* A request for two handlers with two different data has returned.
C16_Witness ==
    /\ pc = "idle" /\ ret.kind = "ids"
    /\ Len(req) = 2 /\ req[1].data # req[2].data /\ req[1].handler # req[2].handler
    /\ \A k \in DOMAIN req : RequestPosted(req[k])

\* ---------------------------------------------------- concurrent waiters
Waiters == 1..src_dp_size

\* The replies the client holds and has not given to a caller.
Arrived == Range(recv_socket) \cup Buffered

ArrivedFor(k) == {p \in Arrived : p.request_id = load_ids[k]}

\* Waiter k of gather_async has its response.
Served(k) == load_pc \in {"gather", "process"} /\ load_resps[k] # <<>>

\* C17: while the waiters of gather_async poll in turns, each for the id of its
\* own request: a waiter that has its response leaves no payload with its id
\* behind, and no two held payloads carry one id; ...
C17_State ==
    load_pc = "gather" =>
       /\ \A k \in Waiters : Served(k) => ArrivedFor(k) = {}
       /\ \A k \in Waiters : Cardinality(ArrivedFor(k)) <= 1
       /\ \A i, j \in DOMAIN recv_socket :
             recv_socket[i].request_id = recv_socket[j].request_id => i = j
       /\ \A p \in Range(recv_socket) : p \notin Buffered

\* ... an attempt that serves waiter k gives it the data of the payload with
\* its id, which was the first of the socket or in the buffer and is in neither
\* afterwards, and gives nothing to another waiter; an attempt that serves
\* nobody takes at most the first message of the socket and puts it in the
\* buffer; ...
C17_Step ==
    (/\ load_pc = "gather"
     /\ \/ load_resps' # load_resps
        \/ response_buffer' # response_buffer
        \/ Len(recv_socket') < Len(recv_socket)) =>
       \/ \E k \in Waiters :
             /\ load_resps[k] = <<>>
             /\ \E p \in ArrivedFor(k) :
                   /\ load_resps' = [load_resps EXCEPT ![k] = <<p.data>>]
                   /\ p \in Buffered \/ p = Head(recv_socket)
                   /\ p \notin Range(recv_socket') \cup Range(response_buffer')
                   /\ Range(recv_socket') \cup Range(response_buffer') = Arrived \ {p}
       \/ /\ load_resps' = load_resps
          /\ recv_socket # <<>> /\ recv_socket' = Tail(recv_socket)
          /\ response_buffer' = Append(response_buffer, Head(recv_socket))

\* ... and a waiter whose payload has arrived is served.
C17_Live ==
    \A k \in Waiters :
       (load_pc = "gather" /\ load_resps[k] = <<>> /\ ArrivedFor(k) # {}) ~> Served(k)

C17_ConcurrentWaiters == []C17_State /\ [][C17_Step]_vars /\ C17_Live

\* The first waiter is served and the second is not: the payload of the second
\* came first, an attempt of the first waiter took it from the socket, and it
\* waits in the buffer.
C17_Witness ==
    /\ load_pc = "gather"
    /\ Served(1) /\ ~Served(src_dp_size)
    /\ ArrivedFor(src_dp_size) # {}
    /\ ArrivedFor(src_dp_size) \subseteq Buffered

\* ------------------------------------------------------------ execute_step
\* C18: execute_step has returned only if every task has finished: every node
\* task, the flush task (a "flush" per generation is on every worker's socket,
\* the last generation's too), the loading task, and the drain task (the
\* "clear_data_cache" request is on every worker's socket); and it has not
\* returned when a task raised.
C18_ReturnsAfterAllTasks ==
    /\ step_pc = "returned" =>
          /\ \A n \in Nodes : node_state[n] = "done"
          /\ Len(flush_log) = Len(topo_widths(G))
          /\ \A w \in Workers : Len(PostedOf("flush", w)) = Len(topo_widths(G))
          /\ load_pc = "done"
          /\ finish_pc = "done"
          /\ \A w \in Workers : Len(PostedOf("clear_data_cache", w)) = 1
    /\ load_pc = "error" => step_pc # "returned"

\* execute_step has returned on a graph of two generations.
C18_Witness ==
    /\ step_pc = "returned"
    /\ Len(topo_widths(G)) = 2 /\ Len(G) = 3
    /\ \A w \in Workers : Len(PostedOf("flush", w)) = 2

\* ----------------------------------------------------------- flush barrier
\* Worker w has taken payload p off its socket.
Observed(w, p) == \E pos \in 1..worker_pos[w] : send_sockets[w][pos] = p

\* C19: once the "flush" request of a generation has returned, it was sent
\* with the handshake and every worker has observed its "flush" payload.
C19_FlushSerialized ==
    \A i \in DOMAIN flush_log : \A w \in Workers :
       /\ i \in DOMAIN PostedOf("flush", w)
       /\ ~PostedOf("flush", w)[i].no_syn
       /\ Observed(w, PostedOf("flush", w)[i])

\* -------------------------------------------------------- loading scenario
\* C20 as stated: in the scenario the loader ends after exactly 2 fetch rounds
\* with 6 samples in the buffer, and raises no duplicate error.
C20_TwoRounds ==
    /\ load_pc # "error"
    /\ load_pc = "done" => (load_rounds = 2 /\ Len(buffer) = src_dp_size * ScenarioBatch)

\* C20, amended: in the scenario the loader makes exactly one fetch round (one
\* "fetch" to each source rank); once that round is put, the buffer holds the
\* samples of all ranks (6 for two ranks of 3), each once, and the loop ends
\* there; no duplicate error is raised.
C20_OneRound ==
    /\ load_pc # "error"
    /\ load_rounds <= 1
    /\ \A w \in Workers : Len(PostedOf("fetch", w)) = load_rounds
    /\ (load_rounds = 1 /\ load_pc \in {"loop", "done"}) =>
          /\ Len(buffer) = src_dp_size * ScenarioBatch
          /\ {buffer[i].id : i \in DOMAIN buffer} = 1..(src_dp_size * ScenarioBatch)
    /\ load_pc = "done" => load_rounds = 1

\* The loader has ended: two ranks, one round, 6 samples in the buffer, 4
\* required.
C20_Witness ==
    /\ load_pc = "done"
    /\ src_dp_size = 2 /\ MaxNSeqs = 4
    /\ load_rounds = 1
    /\ Len(buffer) = 6
    /\ received_ids = 1..6

\* ------------------------------------------------------------- empty round
\* The fetch round that runs brought no sample from any source rank.
EmptyRound ==
    /\ load_pc \in {"process", "sleep"}
    /\ \A k \in DOMAIN load_resps : load_resps[k][1].kind # "DataBatchMeta"

\* C21: a round without data takes the loader from the responses to the sleep
\* and from the sleep to the loop condition, and in these steps the buffer, the
\* tracker and the sockets are left as they are: nothing is put or recorded for
\* the round, and the next fetch comes after the sleep, in a step of its own.
C21_State ==
    load_pc = "sleep" =>
       /\ EmptyRound
       /\ all_data = <<>> /\ load_adds = <<>>
       /\ \A i \in DOMAIN buffer : buffer[i].round # load_rounds
       /\ load_rounds \notin rounds_recorded
       /\ \A w \in Workers : Len(PostedOf("fetch", w)) = load_rounds

C21_Step ==
    (EmptyRound /\ load_pc' # load_pc) =>
       /\ load_pc = "process" => load_pc' = "sleep"
       /\ load_pc = "sleep" => load_pc' = "loop"
       /\ buffer' = buffer /\ tracker' = tracker
       /\ send_sockets' = send_sockets /\ load_rounds' = load_rounds

C21_EmptyRoundYields == []C21_State /\ [][C21_Step]_vars

\* The second round brought nothing and the loader sleeps; the buffer and the
\* tracker hold what the first round brought.
C21_Witness ==
    /\ load_pc = "sleep"
    /\ load_rounds = 2
    /\ buffer # <<>> /\ tracker # {}
    /\ 1 \in rounds_recorded

\* ------------------------------------------------------ zero-worker node
Misconfigured == \E n \in Nodes : node_workers[n] = {}

\* C22: when a node of the graph has no worker assigned, no node task leaves
\* its start and no request is on any socket.
C22_ZeroWorkersRejected ==
    Misconfigured =>
       /\ \A n \in Nodes : node_state[n] = "waiting"
       /\ \A w \in Workers : send_sockets[w] = <<>>

\* ------------------------------------------------- control state after a step
\* The level signals of node n that flush_calls has taken off the queue.
FlushConsumed(n) ==
    Cardinality({<<i, j>> \in (DOMAIN flush_log) \X (1..Cardinality(Nodes)) :
                    j \in DOMAIN flush_log[i].signals /\ flush_log[i].signals[j] = n})
    + Cardinality({j \in DOMAIN flush_got : flush_got[j] = n})

FinishConsumed(n) == Cardinality({j \in DOMAIN finish_got : finish_got[j] = n})

\* C23: once clear_gpu_cache has run, ids_to_clear is empty; the ids it held
\* when the clear began are in used_hash_vals_this_epoch from then on; and when
\* flush_calls has ended too, it has taken one level signal of every node and
\* finish_traverse one completion signal of every leaf, no more, and both
\* queues are empty.
C23_State ==
    /\ finish_pc = "clear_data" => ids_to_clear \subseteq Range(used_hash_vals_this_epoch)
    /\ finish_pc = "done" => ids_to_clear = {}
    /\ (finish_pc = "done" /\ FlushDone) =>
          /\ topo_level_count = <<>> /\ train_count = <<>>
          /\ \A n \in Nodes : FlushConsumed(n) = 1
          /\ \A n \in Nodes : FinishConsumed(n) = IF is_dst(G, n) THEN 1 ELSE 0

C23_Step ==
    /\ (finish_pc = "lock" /\ finish_pc' = "clear_data") =>
          \A i \in DOMAIN used_hash_vals_this_epoch' :
             i > Len(used_hash_vals_this_epoch) =>
                used_hash_vals_this_epoch'[i] \in ids_to_clear
    /\ \A i \in DOMAIN used_hash_vals_this_epoch :
          /\ i \in DOMAIN used_hash_vals_this_epoch'
          /\ used_hash_vals_this_epoch'[i] = used_hash_vals_this_epoch[i]

C23_ControlReset == []C23_State /\ [][C23_Step]_vars

\* A graph of two leaves has been run: both tasks have ended, the ids the
\* leaves worked on are remembered and the set is empty.
C23_Witness ==
    /\ finish_pc = "done" /\ FlushDone
    /\ Cardinality(get_leaf_tasks(G)) = 2
    /\ used_hash_vals_this_epoch # <<>>
    /\ ids_to_clear = {}

\* ---------------------------------------------------- clear-set and the lock
\* The step in which clear_gpu_cache empties the set and leaves the lock.
ClearStep == finish_pc = "clear_data" /\ finish_pc' = "done"

\* C24: clear_gpu_cache holds ctrl.lock from its reading of ids_to_clear to
\* its emptying of it; while it does, no step changes the set, and the ids the
\* set loses when it is emptied are those of the clear_data_cache payload of
\* every worker, and the tracker has no record of them left.
C24_State ==
    /\ lock \in {"free", "clear_gpu_cache"}
    /\ finish_pc = "clear_data" <=> lock = "clear_gpu_cache"
    /\ finish_pc = "clear_data" =>
          \A w \in Workers :
             /\ Len(PostedOf("clear_data_cache", w)) = 1
             /\ PostedOf("clear_data_cache", w)[1].data.ids = ids_to_clear

C24_Step ==
    /\ (lock # "free" /\ ~ClearStep) => ids_to_clear' = ids_to_clear
    /\ (finish_pc = "lock" /\ finish_pc' # "lock") =>
          lock = "free" /\ lock' = "clear_gpu_cache" /\ ids_to_clear' = ids_to_clear
    /\ ClearStep =>
          /\ ids_to_clear' = {} /\ lock' = "free"
          /\ \A r \in tracker' : r.id \notin ids_to_clear
          /\ \A w \in Workers :
                PostedOf("clear_data_cache", w)[1].data.ids = ids_to_clear

C24_ClearSetUnderLock == []C24_State /\ [][C24_Step]_vars

\* clear_gpu_cache holds the lock with ids in the set, which the tracker has
\* on record, while the loader has responses with samples to go through.
C24_Witness ==
    /\ lock = "clear_gpu_cache"
    /\ ids_to_clear # {}
    /\ \E r \in tracker : r.id \in ids_to_clear
    /\ load_pc = "process" /\ HasSamples(load_resps)

\* ------------------------------------------------------- buffer capacity
\* C25: the buffer never holds more than max_size samples; put_batch does not
\* complete while the samples do not fit (until then only consumers change the
\* buffer), and when it completes the samples are in the buffer at the indices
\* it returns, one index per sample.
C25_State == Len(buffer) <= buffer_max_size

C25_Step ==
    /\ (load_pc = "put" /\ Len(buffer) + Len(all_data) > buffer_max_size) =>
          load_pc' = "put" /\ Len(buffer') <= Len(buffer)
    /\ (load_pc = "put" /\ load_pc' # "put") =>
          /\ load_pc' = "loop"
          /\ Len(buffer') = Len(buffer) + Len(all_data)
          /\ Len(put_batch_indices(buffer, all_data)) = Len(all_data)
          /\ \A i \in DOMAIN all_data :
                /\ put_batch_indices(buffer, all_data)[i] \in DOMAIN buffer'
                /\ buffer'[put_batch_indices(buffer, all_data)[i]].id = all_data[i]
          /\ \A i \in DOMAIN buffer : buffer'[i] = buffer[i]

C25_BufferBounded == []C25_State /\ [][C25_Step]_vars

\* put_batch waits: the buffer has a sample, and the round's samples would
\* take it over max_size.
C25_Witness ==
    /\ load_pc = "put"
    /\ buffer # <<>>
    /\ Len(buffer) + Len(all_data) > buffer_max_size
    /\ Len(all_data) <= buffer_max_size

\* ------------------------------------------------------- tracker add / clear
\* C26: a call that removes a record of an id leaves no record of that id,
\* under any worker and any key, whatever calls came between the add_data that
\* made the record and this clear_data; a call that removes nothing only adds.
C26_Step ==
    /\ \A r \in tracker \ tracker' : \A q \in tracker' : q.id # r.id
    /\ tracker' \ tracker # {} => tracker \subseteq tracker'

C26_AddThenClear == [][C26_Step]_vars

\* The ids the buffer holds had records under both keys when the run began
\* and have none now, after a clear_data; id 1 has records under both workers
\* and both keys, from add_data calls that came before or after it.
C26_Witness ==
    /\ buffer # <<>>
    /\ \A i \in DOMAIN buffer : \A r \in tracker : r.id # buffer[i].id
    /\ \A w \in Workers : \A j \in DOMAIN DataKeys :
          [worker |-> w, key |-> DataKeys[j], id |-> 1] \in tracker

\* ------------------------------------------------------ redistribution plan
\* C27: in a plan, no transfer goes to a worker that owns the sample, every
\* transfer comes from a worker that owns it, and when every target owns
\* every sample asked for the plan is empty.
C27_PlanSound ==
    /\ \A t \in redistrib_plan.transfers :
          /\ ~Owns(tracker, t.dst, t.key, t.id)
          /\ Owns(tracker, t.src, t.key, t.id)
          /\ t.dst \in redistrib_plan.targets
          /\ t.id \in redistrib_plan.ids /\ t.key = redistrib_plan.key
    /\ (\A w \in redistrib_plan.targets : \A i \in redistrib_plan.ids :
           Owns(tracker, w, redistrib_plan.key, i)) => redistrib_plan.transfers = {}

\* A plan for both workers and both samples with one transfer: one worker
\* owns both samples, the other one of them.
C27_Witness ==
    /\ redistrib_plan.targets = Workers
    /\ redistrib_plan.ids = SampleIds
    /\ Cardinality(redistrib_plan.transfers) = 1
    /\ \E w \in Workers : \A i \in SampleIds : Owns(tracker, w, redistrib_plan.key, i)

\* ------------------------------------------------- handshake under fairness
\* The SYN of request r has been pulled from the socket.
SynArrived(r) == \E p \in received : p.request_id = r.syn_reply_id

SynBuffered(r) == \E p \in Buffered : p.request_id = r.syn_reply_id

\* The SYN ids of the requests posted so far.
SynIds == {x.payload.syn_reply_id : x \in {y \in Posted : y.payload.handle_name # "ack"}}

\* C28: while request waits for SYNs, a SYN that has arrived for a request
\* whose turn has not come is in the buffer, and the SYNs of the requests
\* before are out of it; only SYNs are ever taken out, so every other reply
\* pulled stays in the buffer; and the wait ends with the call returning the
\* request ids.
C28_State ==
    /\ pc = "req_syn" =>
          \A k \in DOMAIN req :
             /\ (k >= idx /\ SynArrived(req[k])) => SynBuffered(req[k])
             /\ k < idx => (SynArrived(req[k]) /\ ~SynBuffered(req[k]))
    /\ \A p \in received : p.request_id \notin SynIds => p \in Buffered
    /\ \A p \in received : p \in Buffered \/ p \in DeliveredPayloads

C28_Live == (pc = "req_syn") ~> (pc = "idle" /\ ret.kind = "ids")

C28_HandshakeReturns == []C28_State /\ C28_Live

\* A request to two handlers has returned; the SYN of the second came first
\* and was found in the buffer, and the reply to the earlier post, which came
\* in between, is in the buffer.
C28_Witness ==
    /\ pc = "idle" /\ ret.kind = "ids" /\ Len(req) = 2 /\ ~req_no_syn
    /\ \E d \in delivered : d.buffered /\ d.payload.request_id = req[2].syn_reply_id
    /\ \E p \in Buffered : p.request_id = EarlierPayload(1).request_id

\* ------------------------------------------------ SYN wait and payload flag
\* C29: request waits for the SYN of a payload exactly when the payload it has
\* posted carries no_syn = False: it is in its SYN phase only for payloads
\* that ask for a SYN, and it has not returned the ids of a payload that asks
\* for one without having observed that SYN.
C29_SynIffPayloadFlag ==
    /\ pc = "req_syn" => \A k \in DOMAIN req : ~req[k].no_syn
    /\ (pc = "idle" /\ ret.kind = "ids") =>
          \A k \in DOMAIN req : ~req[k].no_syn => SynObserved(req[k])

\* --------------------------------------------------- ownership of a round
\* The samples of the round that source rank k sent.
SentBy(k) ==
    IF load_resps[k] # <<>> /\ load_resps[k][1].kind = "DataBatchMeta"
    THEN Range(load_resps[k][1].samples) ELSE {}

\* C30: the samples of a round that are in the buffer have, each of them and
\* for every data key, an ownership record under the worker to which the
\* handler of the rank that sent them is routed.
C30_OwnershipRecorded ==
    \A i \in DOMAIN buffer :
       buffer[i].round = load_rounds =>
          \A k \in DOMAIN load_resps :
             buffer[i].id \in SentBy(k) =>
                \A j \in DOMAIN DataKeys :
                   Owns(tracker, handler_routing[DataHandler(k)], DataKeys[j], buffer[i].id)

\* ------------------------------------------------------ rendezvous order
ClientPublished ==
    {MasterSendName(i) : i \in Workers} \cup {MasterRecvName} \subseteq name_entries

ClientAtBarrier ==
    ClientReady \/ ClientProgram[client_step].op = "barrier"

AllConstructed == ClientReady /\ \A w \in Workers : ServerReady(w)

\* The order of the rendezvous: the master is at its barrier only with all its
\* addresses published; a worker's barrier sub-entry is there only when both
\* of its addresses were there and it has connected; and when the master's
\* constructor has ended every worker has connected.
C31_Order ==
    /\ (ClientAtBarrier \/ client_polls > 0) => ClientPublished
    /\ \A w \in barrier_subtree :
          /\ w \in server_accepted
          /\ MasterRecvName \in name_entries /\ MasterSendName(w) \in name_entries
    /\ ClientReady => server_accepted = Workers

\* C31: the order holds, and with all workers started both sides finish their
\* construction.
C31_RendezvousCompletes == []C31_Order /\ <>AllConstructed

\* C31 (amended): the order holds, and once the master has published its
\* addresses with no worker's wait timed out, both sides finish their
\* construction.
C31_CompletesUnlessTimeout ==
    /\ []C31_Order
    /\ (ClientPublished /\ \A w \in Workers : ~ServerTimedOut(w)) ~> AllConstructed

\* Both sides have finished, the master after it had found the barrier
\* incomplete and a worker after it had waited for an address.
C31_Witness ==
    /\ AllConstructed
    /\ client_polls > 0
    /\ server_accepted = Workers /\ barrier_subtree = Workers

\* --------------------------------------------- termination of execute_step
\* The level signals flush_calls has taken off the queue.
LevelSignalsTaken ==
    Len(flush_got) + SumWidths(topo_widths(G), flush_level - 1)

\* While fewer level signals than nodes have been emitted flush_calls has not
\* finished and execute_step has not returned; flush_calls takes no more
\* signals than were emitted, and finishes with one signal per node.
C32_State ==
    /\ SignalsEmitted = LevelSignalsTaken + Len(topo_level_count)
    /\ FlushDone => LevelSignalsTaken = Cardinality(Nodes)
    /\ SignalsEmitted < Cardinality(Nodes) => ~FlushDone /\ step_pc # "returned"

\* Once load_data has got the samples it waits for, execute_step returns.
C32_Live == (load_pc = "done") ~> (step_pc = "returned")

\* C32: execute_step returns when every node emits its signals and the source
\* ranks deliver enough samples; with fewer level signals than nodes emitted
\* flush_calls has not finished and execute_step has not returned.
C32_StepTerminates == []C32_State /\ C32_Live

\* execute_step has returned from a graph of more than one generation, every
\* node having emitted its signal and every generation having been flushed.
C32_Witness ==
    /\ step_pc = "returned"
    /\ Len(topo_widths(G)) > 1
    /\ Len(flush_log) = Len(topo_widths(G))
    /\ SignalsEmitted = Cardinality(Nodes)

\* ------------------------------------------------------ recovery restarts
Recoverable ==
    /\ args.recover_mode \in {"auto", "fault"}
    /\ recover_count < args.recover_retries
    /\ main_exc.kind = "JobException"
    /\ main_exc.reason \in {"CANCELLED", "FAILED", "NOT_FOUND"}

\* A run is restarted only with its jobs stopped, and never more often than
\* recover_retries says.
C33_State ==
    /\ main_pc \in {"recover", "raised"} => sched_jobs = {}
    /\ restarts = recover_count
    /\ restarts <= args.recover_retries

\* After a failed wait the jobs are stopped, and then the run is restarted
\* exactly when it is recoverable and the error is raised again otherwise; a
\* restart keeps the job group id and adds one to the recover count, and
\* nothing else starts main_start anew or changes the two.
C33_Step ==
    /\ main_pc = "wait" /\ main_pc' \notin {"wait", "returned"} =>
          main_pc' = "stop_all" /\ main_exc' \in WaitExceptions
    /\ main_pc = "stop_all" /\ main_pc' # "stop_all" =>
          /\ sched_jobs' = {}
          /\ main_exc' = main_exc
          /\ main_pc' = IF Recoverable THEN "recover" ELSE "raised"
    /\ main_pc # "start" /\ main_pc' = "start" =>
          /\ main_pc = "recover"
          /\ sched_jobs = {}
          /\ job_group_id' = job_group_id
          /\ recover_count' = recover_count + 1
    /\ job_group_id # "" => job_group_id' = job_group_id
    /\ recover_count' # recover_count => main_pc = "recover" /\ main_pc' = "start"

\* C33: a failed wait stops all jobs and then restarts the run only in recover
\* mode auto or fault, below recover_retries and for the reasons CANCELLED,
\* FAILED, NOT_FOUND, and raises the error again otherwise; each restart keeps
\* the job group id and adds one to the recover count, so that there are at
\* most recover_retries restarts.
C33_RecoverBounded == []C33_State /\ [][C33_Step]_vars

\* A run that has been restarted recover_retries times, twice, and whose third
\* failure, recoverable but for the count, was raised again.
C33_Witness ==
    /\ main_pc = "raised"
    /\ restarts = 2 /\ args.recover_retries = 2
    /\ main_exc = [kind |-> "JobException", reason |-> "FAILED"]
    /\ job_group_id # ""

\* ------------------------------------------- reset of the name resolving repo
RepoEmpty ==
    /\ name_entries \cup stale_names = {}
    /\ barrier_subtree = {} /\ stale_markers = {}

\* The worker has got the address under the name from name_resolve.wait.
HasRead(w, name) ==
    \E i \in 1..Len(ServerProgram(w)) :
        /\ ServerProgram(w)[i] = [op |-> "wait", name |-> name]
        /\ server_step[w] > i

\* While the jobs of a run are there the repo holds nothing of another run:
\* the markers the master counts are those of this run's workers, which have
\* connected, and the addresses a worker has read are those this run's master
\* has added.
C34_State ==
    main_pc \in {"wait", "stop_all"} =>
        /\ stale_names = {} /\ stale_markers = {}
        /\ ClientReady => barrier_subtree = Workers /\ server_accepted = Workers
        /\ \A w \in Workers :
              \A name \in {MasterRecvName, MasterSendName(w)} :
                  HasRead(w, name) => name \in name_entries

\* The jobs are submitted only from main_start having cleared the repo, to an
\* empty repo, on the first start as on a restart.
C34_Step ==
    /\ sched_jobs' # sched_jobs /\ sched_jobs' # {} =>
          /\ main_pc = "submit" /\ main_pc' = "wait"
          /\ sched_jobs = {}
          /\ RepoEmpty
    /\ main_pc # "submit" /\ main_pc' = "submit" => main_pc = "reset" /\ RepoEmpty'
    /\ main_pc = "start" /\ main_pc' # "start" => main_pc' \in {"reset", "raised"}

====
